---- MODULE Spec2Model ----
(***************************************************************************)
(* Model of the tabular data pipeline of the fine-tune backend:            *)
(*   - PipelineIntegrationService.process_dataset (the orchestrator),      *)
(*     backend/app/services/pipeline/integration.py                        *)
(*   - the status bookkeeping of the process_data endpoint,                *)
(*     backend/app/api/v1/pipeline.py                                      *)
(*   - DataPreprocessor.process_pipeline, services/data/preprocessing.py   *)
(*   - DataAugmenter.augment_dataset, services/data/augmentation.py        *)
(***************************************************************************)
EXTENDS Integers, Sequences, FiniteSets, TLC

(***************************************************************************)
(* Bounds                                                                  *)
(***************************************************************************)
\* last second of the wall clock (datetime.now() truncated to seconds)
MaxClock == 1
\* number of process_dataset invocations on one orchestrator (SpecRuns)
MaxRuns == 2

\* "no entry" in _pipeline_stats / no directory on disk
NoRecord == [absent |-> TRUE]

Ids == 0..MaxClock

(***************************************************************************)
(* Orchestrator state                                                      *)
(***************************************************************************)
VARIABLES
    clock,      \* wall clock in seconds
    stats,      \* self._pipeline_stats : pipeline_id -> record | NoRecord
    disk,       \* base_path / pipeline_id : number of the invocation whose
                \* pipeline_stats.json is stored there, 0 = no such file
    run,        \* the invocation of process_dataset in progress
    finished,   \* history: what each finished invocation handed to its caller
    pre,        \* self.preprocessor._feature_stats: number of the invocation
                \* whose table's statistics the dict holds, 0 = empty dict
    tr,         \* one call of DataPreprocessor.process_pipeline
    aug,        \* one call of DataAugmenter.augment_dataset
    val,        \* calls of DataValidator.validate_dataset on one validator
    norm,       \* one use of convert_numpy_types
    cleanup,    \* one call of clean_old_pipelines
    pool,       \* the workers of one parallel step of process_pipeline
    dep,        \* the deployments table and the requests working on it
    pipe        \* one request to the process_data endpoint

orchVars == <<clock, stats, disk, run, finished, pre>>

\* the components followed on their own, outside process_dataset
leafVars == <<val, norm, cleanup, pool, dep, pipe>>

vars ==
    <<clock, stats, disk, run, finished, pre, tr, aug, val, norm, cleanup,
      pool, dep, pipe>>

\* variant that analyses before it preprocesses
StageOrderAnalysisFirst ==
    <<"initial_validation", "analysis", "preprocessing",
      "augmentation", "final_validation">>

\* the five stages, in the order of the source
StageOrder == <<"initial_validation", "preprocessing", "analysis",
                "augmentation", "final_validation">>

Stages == {StageOrder[i] : i \in 1..Len(StageOrder)}

StageIndex(s) == CHOOSE i \in 1..Len(StageOrder) : StageOrder[i] = s

\* the position of process_dataset while stage s is the next one to run
PcOf(s) ==
    CASE s = "initial_validation" -> "validating_initial"
      [] s = "preprocessing"      -> "transforming"
      [] s = "analysis"           -> "analyzing"
      [] s = "augmentation"       -> "augmenting"
      [] s = "final_validation"   -> "validating_final"

\* the position once stage s is over: the next stage of the source, or the
\* final save
After(s) ==
    IF StageIndex(s) = Len(StageOrder)
    THEN "finalizing"
    ELSE PcOf(StageOrder[StageIndex(s) + 1])

\* the stages whose report is stored under stats[id].stages
ReportingStages == {"preprocessing", "analysis", "augmentation"}

\* f"<Stage> error: ..." prefixes handed to _handle_error
ErrorPrefix(s) ==
    CASE s = "initial_validation" -> "Initial validation error"
      [] s = "preprocessing"      -> "Preprocessing error"
      [] s = "analysis"           -> "Analysis error"
      [] s = "augmentation"       -> "Augmentation error"
      [] s = "final_validation"   -> "Final validation error"

PipelineErrorPrefix == "Pipeline error"

\* augmentation methods dispatched by DataAugmenter.augment_dataset; "bogus"
\* stands for any string that is none of the five names
SupportedMethods == {"smote", "mixup", "random_interpolation",
                     "gaussian_noise", "time_warp"}

\* pipeline_config: an arbitrary dict.  process_dataset reads the three
\* perform_* keys below and augmentation_config.method; every other key,
\* perform_initial_validation and perform_final_validation included, is
\* never read.
Configs ==
    [perform_initial_validation : BOOLEAN,
     perform_preprocessing      : BOOLEAN,
     perform_analysis           : BOOLEAN,
     perform_augmentation       : BOOLEAN,
     perform_final_validation   : BOOLEAN,
     method                     : {"smote", "mixup", "bogus"}]

\* the config used when several invocations are modelled: no perform_* key
\* set, as in the dict process_data passes (request.config.dict()), so the
\* defaults of the .get calls apply; augmentation_config.method absent, so
\* 'smote'
RunsConfigs ==
    {[perform_initial_validation |-> TRUE,
      perform_preprocessing      |-> TRUE,
      perform_analysis           |-> TRUE,
      perform_augmentation       |-> FALSE,
      perform_final_validation   |-> TRUE,
      method                     |-> "smote"]}

\* the table held in the local `data`: which step produced it and whether
\* it is a DataFrame or an ndarray (process_pipeline returns data.values)
NoTable == [by |-> "none", kind |-> "none"]
Table(by, kind) == [by |-> by, kind |-> kind]

OrchInit ==
    /\ clock = 0
    /\ stats = [i \in Ids |-> NoRecord]
    /\ disk = [i \in Ids |-> 0]
    /\ run = [pc |-> "idle"]
    /\ finished = <<>>
    /\ pre = 0

\* the component of this variable is not being followed
LeafOff == [pc |-> "off"]

LeavesOff ==
    /\ val = LeafOff
    /\ norm = LeafOff
    /\ cleanup = LeafOff
    /\ pool = LeafOff
    /\ dep = LeafOff
    /\ pipe = LeafOff

Init == OrchInit /\ tr = LeafOff /\ aug = LeafOff /\ LeavesOff

(***************************************************************************)
(* Helpers of the orchestrator                                             *)
(***************************************************************************)
\* variant of _handle_error that only logs
HandleErrorLogOnly(st, msg, id) == st

\* PipelineIntegrationService._handle_error
HandleError(st, msg, id) ==
    IF st[id] # NoRecord
    THEN [st EXCEPT ![id].errors = Append(@, msg)]
    ELSE st

\* variant in which no stage consults the config
GateAlways(cfg, s) == TRUE

\* the `if pipeline_config.get('perform_...')` in front of a stage; the two
\* validation stages have none
Gate(cfg, s) ==
    CASE s = "preprocessing" -> cfg.perform_preprocessing
      [] s = "analysis"      -> cfg.perform_analysis
      [] s = "augmentation"  -> cfg.perform_augmentation
      [] OTHER               -> TRUE

\* one executed stage: its name, the table it was given, the table it
\* assigned to `data` (NoTable if none), whether it raised
Exec(r, s, out, raised) ==
    [r EXCEPT !.trace = Append(@, [stage |-> s, input |-> r.data,
                                   output |-> out, raised |-> raised]),
              !.data = IF out = NoTable THEN @ ELSE out,
              !.pc = After(s)]

Skip(r, s) == [r EXCEPT !.pc = After(s)]

\* stages[s] = report
Record(st, id, s) == [st EXCEPT ![id].stages = @ \cup {s}]

\* rec['stages'][s] as a reader of the record sees it now: the report of
\* preprocessing is the preprocessor's dict, the other reports are the
\* record's own; "none" if the stage stored nothing
StageResult(rec, s) ==
    IF rec = NoRecord \/ s \notin rec.stages THEN [of |-> "none"]
    ELSE IF s = "preprocessing" THEN [of |-> "preprocessor", holds |-> pre]
    ELSE [of |-> "record"]

(***************************************************************************)
(* process_dataset, lines 45-64: id, fresh record, load                    *)
(***************************************************************************)
\* the orchestrator is between two invocations and may be called again
CanStart(limit) ==
    /\ run.pc \in {"idle", "completed", "failed"}
    /\ Len(finished) < limit

StartRun(cfg, inp, save) ==
    /\ run' = [pc |-> "created", n |-> Len(finished) + 1, id |-> clock,
               cfg |-> cfg, input |-> inp, save |-> save,
               data |-> NoTable, trace |-> <<>>, cancelled |-> FALSE]
    /\ stats' = [stats EXCEPT ![clock] =
                    [start_time |-> clock, stages |-> {}, errors |-> <<>>,
                     warnings |-> <<>>, end_time |-> -1]]
    /\ UNCHANGED <<clock, disk, finished, pre, tr, aug, leafVars>>

\* what the caller of process_dataset observes: "returned" makes
\* process_data set status completed, "raised" makes it set status failed
Finish(r, st, outcome) ==
    Append(finished, [n |-> r.n, id |-> r.id, outcome |-> outcome,
                      record |-> st[r.id],
                      preprocessing |-> StageResult(st[r.id], "preprocessing")])

\* the outer `except Exception` of process_dataset, lines 158-160
Abort(st) ==
    /\ stats' = HandleError(st, PipelineErrorPrefix, run.id)
    /\ run' = [run EXCEPT !.pc = "failed"]
    /\ finished' = Finish(run, stats', "raised")

\* variant of _load_dataset that hands an unknown suffix to a reader
LoadOutcomesLenient(inp) ==
    CASE inp = "txt" -> {TRUE, FALSE}
      [] inp = "csv" -> {TRUE, FALSE}
      [] OTHER       -> {TRUE}

\* lines 62-64 and _load_dataset: a DataFrame or ndarray is used as it is;
\* a path with an unsupported suffix raises, a reader may raise
LoadOutcomes(inp) ==
    CASE inp = "txt" -> {FALSE}
      [] inp = "csv" -> {TRUE, FALSE}
      [] OTHER       -> {TRUE}

LoadDataset ==
    /\ run.pc = "created"
    /\ \E ok \in LoadOutcomes(run.input) :
          IF ok
          THEN /\ run' = [run EXCEPT
                            !.pc = PcOf(StageOrder[1]),
                            !.data = Table("input",
                                           IF run.input = "array"
                                           THEN "array" ELSE "frame")]
               /\ UNCHANGED <<stats, finished>>
          ELSE Abort(stats)
    /\ UNCHANGED <<clock, disk, pre, tr, aug, leafVars>>

(***************************************************************************)
(* The five stages, lines 66-132                                           *)
(***************************************************************************)
\* lines 66-72 (s = initial_validation) and 126-132 (s = final_validation);
\* DataValidator.validate_dataset reads df.columns: an ndarray raises
Validate(s) ==
    \E o \in (IF run.data.kind = "array" THEN {"raise"}
              ELSE {"valid", "invalid", "raise"}) :
       /\ run' = Exec(run, s, NoTable, o = "raise")
       /\ stats' = CASE o = "valid"   -> stats
                     [] o = "invalid" ->
                            [stats EXCEPT ![run.id].warnings =
                                              Append(@, "violation")]
                     [] o = "raise"   ->
                            HandleError(stats, ErrorPrefix(s), run.id)

InitialValidation ==
    /\ run.pc = PcOf("initial_validation")
    /\ Validate("initial_validation")
    /\ UNCHANGED <<clock, disk, finished, pre, tr, aug, leafVars>>

\* self._feature_stats after process_pipeline was called by invocation n:
\* scale_column writes the statistics of the columns into the one dict the
\* preprocessor owns (preprocessing.py:164), unless the call raised before
\* that (wrote = FALSE)
FeatureStatsAfter(n, wrote) == IF wrote THEN n ELSE pre

\* lines 74-88; preprocessing_stats is the dict self._feature_stats itself
\* (process_pipeline returns it, preprocessing.py:61).
\* With save_intermediate the preprocessor is handed a Path as save_path and
\* DataPreprocessor._save_processed_data calls save_path.endswith, which a
\* Path does not have: process_pipeline raises after its steps.
Preprocessing ==
    /\ run.pc = PcOf("preprocessing")
    /\ IF Gate(run.cfg, "preprocessing")
       THEN \E o \in (IF run.save THEN {"raise"} ELSE {"ok", "raise"}) :
               IF o = "ok"
               THEN /\ run' = Exec(run, "preprocessing",
                                   Table("preprocessing", "array"), FALSE)
                    /\ stats' = Record(stats, run.id, "preprocessing")
                    /\ pre' = FeatureStatsAfter(run.n, TRUE)
               ELSE /\ run' = Exec(run, "preprocessing", NoTable, TRUE)
                    /\ stats' = HandleError(stats,
                                     ErrorPrefix("preprocessing"), run.id)
                    /\ \E wrote \in BOOLEAN :
                          pre' = FeatureStatsAfter(run.n, wrote)
       ELSE /\ run' = Skip(run, "preprocessing")
            /\ UNCHANGED <<stats, pre>>
    /\ UNCHANGED <<clock, disk, finished, tr, aug, leafVars>>

\* lines 90-105; "raise_save": _save_analysis_results raised after the
\* report had been stored
Analysis ==
    /\ run.pc = PcOf("analysis")
    /\ IF Gate(run.cfg, "analysis")
       THEN \E o \in (IF run.save THEN {"ok", "raise", "raise_save"}
                     ELSE {"ok", "raise"}) :
               /\ run' = Exec(run, "analysis", NoTable, o # "ok")
               /\ stats' =
                    CASE o = "ok"         ->
                           Record(stats, run.id, "analysis")
                      [] o = "raise"      ->
                           HandleError(stats, ErrorPrefix("analysis"),
                                       run.id)
                      [] o = "raise_save" ->
                           HandleError(Record(stats, run.id, "analysis"),
                                       ErrorPrefix("analysis"), run.id)
       ELSE /\ run' = Skip(run, "analysis")
            /\ UNCHANGED stats
    /\ UNCHANGED <<clock, disk, finished, pre, tr, aug, leafVars>>

\* variant of augment_dataset whose final else branch falls back to a
\* supported method instead of raising
AugmentationOutcomesFallback(method, save) ==
    IF method = "smote"
    THEN {"raise"}
    ELSE IF save THEN {"raise", "raise_save"} ELSE {"ok", "raise"}

\* DataAugmenter.augment_dataset: an unknown method raises ValueError and
\* "smote" calls self._apply_smote, which the class does not define.
\* A successful augmentation is followed, with save_intermediate, by
\* _save_stage_data, which writes into <id>/augmentation/ without creating
\* that directory: "raise_save".
AugmentationOutcomes(method, save) ==
    IF method \notin SupportedMethods \/ method = "smote"
    THEN {"raise"}
    ELSE IF save THEN {"raise", "raise_save"} ELSE {"ok", "raise"}

\* lines 107-124
Augmentation ==
    /\ run.pc = PcOf("augmentation")
    /\ IF Gate(run.cfg, "augmentation")
       THEN \E o \in AugmentationOutcomes(run.cfg.method, run.save) :
               /\ run' = Exec(run, "augmentation",
                              IF o = "raise" THEN NoTable
                              ELSE Table("augmentation", "frame"),
                              o # "ok")
               /\ stats' =
                    CASE o = "ok"         ->
                           Record(stats, run.id, "augmentation")
                      [] o = "raise"      ->
                           HandleError(stats, ErrorPrefix("augmentation"),
                                       run.id)
                      [] o = "raise_save" ->
                           HandleError(Record(stats, run.id, "augmentation"),
                                       ErrorPrefix("augmentation"), run.id)
       ELSE /\ run' = Skip(run, "augmentation")
            /\ UNCHANGED stats
    /\ UNCHANGED <<clock, disk, finished, pre, tr, aug, leafVars>>

FinalValidation ==
    /\ run.pc = PcOf("final_validation")
    /\ Validate("final_validation")
    /\ UNCHANGED <<clock, disk, finished, pre, tr, aug, leafVars>>

(***************************************************************************)
(* lines 134-156: final save, end_time, _save_pipeline_stats, return       *)
(***************************************************************************)
\* self._save_processed_data is not a method of PipelineIntegrationService:
\* with save_intermediate line 136 raises AttributeError.
\* _save_pipeline_stats may fail (directory, json.dump).
Finalize ==
    /\ run.pc = "finalizing"
    /\ IF run.save
       THEN Abort(stats) /\ UNCHANGED disk
       ELSE \E written \in BOOLEAN :
               LET ended == [stats EXCEPT ![run.id].end_time = clock]
               IN IF written
                  THEN /\ stats' = ended
                       /\ disk' = [disk EXCEPT ![run.id] = run.n]
                       /\ run' = [run EXCEPT !.pc = "completed"]
                       /\ finished' = Finish(run, ended, "returned")
                  ELSE Abort(ended) /\ UNCHANGED disk
    /\ UNCHANGED <<clock, pre, tr, aug, leafVars>>

\* task.cancel() on the task that runs process_dataset (the shutdown
\* handler of core/lifecycle.py:67-73 does it for every task), requested
\* while a stage is executing.  The request is delivered at an await that
\* suspends; the coroutines process_dataset awaits never suspend and no
\* code tests for a request, so the invocation goes on as before.
RequestCancel ==
    /\ run.pc \in {PcOf(s) : s \in Stages}
    /\ ~run.cancelled
    /\ run' = [run EXCEPT !.cancelled = TRUE]
    /\ UNCHANGED <<clock, stats, disk, finished, pre, tr, aug, leafVars>>

\* datetime.now() moves on
Tick ==
    /\ clock < MaxClock
    /\ clock' = clock + 1
    /\ UNCHANGED <<stats, disk, run, finished, pre, tr, aug, leafVars>>

StagesNext ==
    \/ LoadDataset
    \/ InitialValidation
    \/ Preprocessing
    \/ Analysis
    \/ Augmentation
    \/ FinalValidation
    \/ Finalize
    \/ RequestCancel
    \/ Tick

\* one invocation of process_dataset, any config and input; the `data`
\* argument is a DataFrame, an ndarray, a path with a supported suffix or a
\* path with an unsupported suffix
Next ==
    \/ /\ CanStart(1)
       /\ \E cfg \in Configs, inp \in {"frame", "array", "csv", "txt"},
             save \in BOOLEAN :
             StartRun(cfg, inp, save)
    \/ StagesNext

Spec == Init /\ [][Next]_vars

\* MaxRuns invocations, one after the other, on the same orchestrator
NextRuns ==
    \/ /\ CanStart(MaxRuns)
       /\ \E cfg \in RunsConfigs, inp \in {"frame", "txt"} :
             StartRun(cfg, inp, FALSE)
    \/ StagesNext

SpecRuns == Init /\ [][NextRuns]_vars

(***************************************************************************)
(* Cells of a table.  A number is an exact fraction n/d (d > 0, lowest     *)
(* terms), NaN is the missing value, a string is one of the categories.    *)
(***************************************************************************)
NaN == [t |-> "nan"]
Str(s) == [t |-> "str", s |-> s]

IsNaN(c) == c.t = "nan"

Abs(i) == IF i < 0 THEN -i ELSE i

RECURSIVE Gcd(_, _)
Gcd(a, b) == IF b = 0 THEN a ELSE Gcd(b, a % b)

\* the fraction n/d, d # 0
Q(n, d) ==
    LET sn == IF d < 0 THEN -n ELSE n
        sd == Abs(d)
        g  == Gcd(Abs(sn), sd)
    IN [t |-> "num", n |-> sn \div g, d |-> sd \div g]

QInt(i) == Q(i, 1)

\* arithmetic of pandas/numpy floats: NaN is absorbing
QAdd(x, y) ==
    IF IsNaN(x) \/ IsNaN(y) THEN NaN ELSE Q(x.n * y.d + y.n * x.d, x.d * y.d)
QSub(x, y) ==
    IF IsNaN(x) \/ IsNaN(y) THEN NaN ELSE Q(x.n * y.d - y.n * x.d, x.d * y.d)
QMul(x, y) ==
    IF IsNaN(x) \/ IsNaN(y) THEN NaN ELSE Q(x.n * y.n, x.d * y.d)
\* x / y; 0/0 and x/NaN are NaN (a nonzero x over 0 is infinite and is not
\* produced by the callers below)
QDiv(x, y) ==
    IF IsNaN(x) \/ IsNaN(y) \/ y.n = 0 THEN NaN ELSE Q(x.n * y.d, x.d * y.n)
\* comparisons with NaN are False
QLess(x, y) ==
    IF IsNaN(x) \/ IsNaN(y) THEN FALSE ELSE x.n * y.d < y.n * x.d

\* the values of a column that are not missing (skipna)
NonNull(vals) == SelectSeq(vals, LAMBDA c : ~IsNaN(c))

AnyNull(vals) == \E i \in DOMAIN vals : IsNaN(vals[i])

RECURSIVE QSum(_)
QSum(vals) ==
    IF vals = <<>> THEN QInt(0) ELSE QAdd(Head(vals), QSum(Tail(vals)))

\* Series.mean(): NaN for a column without values
Mean(vals) ==
    LET v == NonNull(vals)
    IN IF v = <<>> THEN NaN ELSE QDiv(QSum(v), QInt(Len(v)))

\* Series.median(): middle value, or the mean of the two middle values;
\* Nth(i) is the i-th smallest of the values (1-based)
Median(vals) ==
    LET v == NonNull(vals)
        n == Len(v)
        Nth(i) ==
            CHOOSE x \in {v[k] : k \in DOMAIN v} :
                /\ Cardinality({k \in DOMAIN v : QLess(v[k], x)}) < i
                /\ Cardinality({k \in DOMAIN v : ~QLess(x, v[k])}) >= i
    IN IF n = 0 THEN NaN
       ELSE IF n % 2 = 1 THEN Nth((n + 1) \div 2)
       ELSE QDiv(QAdd(Nth(n \div 2), Nth(n \div 2 + 1)), QInt(2))

\* sum of squared deviations from the mean
SumSq(vals) ==
    LET v == NonNull(vals)
        m == Mean(vals)
    IN QSum([i \in DOMAIN v |-> QMul(QSub(v[i], m), QSub(v[i], m))])

\* the categories in the order Python sorts their str() forms; "nan" is
\* str(NaN), the missing value of an object column read from a file
CatRank(s) ==
    LET CatOrder == <<"a", "b", "nan">>
    IN CHOOSE i \in DOMAIN CatOrder : CatOrder[i] = s
CatOf(c) == IF IsNaN(c) THEN "nan" ELSE c.s

\* Series.mode()[0]: the most frequent value, the smallest one on a tie;
\* only called on a column that has a value
Mode(vals) ==
    LET v == NonNull(vals)
        count(x) == Cardinality({k \in DOMAIN v : v[k] = x})
        best == {x \in {v[k] : k \in DOMAIN v} :
                    \A k \in DOMAIN v : count(v[k]) <= count(x)}
    IN CHOOSE x \in best : \A y \in best : CatRank(x.s) <= CatRank(y.s)

(***************************************************************************)
(* DataPreprocessor.process_pipeline                                       *)
(*                                                                         *)
(* A table is a sequence of columns [name, dtype, vals]; dtype "num" is a  *)
(* numeric dtype (int64 / float64), "obj" is object.                       *)
(***************************************************************************)
\* largest number of rows of the tables handed to process_pipeline
TMaxRows == 2

NumCells == {NaN, QInt(0), QInt(9)}
ObjCells == {NaN, Str("a"), Str("b")}

Column(name, dtype, vals) == [name |-> name, dtype |-> dtype, vals |-> vals]

TTables ==
    UNION {{<<Column("age", "num", a), Column("city", "obj", c)>> :
               a \in [1..n -> NumCells], c \in [1..n -> ObjCells]} :
           n \in 1..TMaxRows}

\* the columns of the two worked examples: ages with two missing values,
\* and five readings of which one is far from the others
ScenarioTables ==
    {<<Column("age", "num", <<QInt(25), NaN, QInt(35), NaN, QInt(45)>>)>>,
     <<Column("reading", "num",
              <<QInt(10), QInt(12), QInt(11), QInt(1000), QInt(9)>>)>>}

\* len(df)
Rows(df) == IF df = <<>> THEN 0 ELSE Len(df[1].vals)

ColumnNames(df) == {df[i].name : i \in DOMAIN df}

\* self.config of the preprocessor, with the keys the code reads
\* (_initialize_pipeline_steps, _handle_missing_values, _handle_outliers)
TConfigs ==
    {c \in [handle_missing          : BOOLEAN,
            missing_values_strategy : {"mean", "median", "mode", "zero"},
            handle_outliers         : BOOLEAN,
            outlier_threshold       : {Q(1, 2), QInt(3)},
            feature_engineering     : BOOLEAN,
            encode_categorical      : BOOLEAN,
            scale_numerical         : BOOLEAN,
            scaling                 : BOOLEAN] :
        \* a key that is not read does not vary
        /\ ~c.handle_missing => c.missing_values_strategy = "mean"
        /\ ~c.handle_outliers => c.outlier_threshold = QInt(3)
        \* PreprocessingConfig.scaling (schemas/pipeline.py:12, default True)
        \* is the name of the scaling option for a caller; the engine reads
        \* config.get('scale_numerical', True), which is True in a config
        \* that says 'scaling': False
        /\ ~c.scaling => c.scale_numerical}

\* config['feature_interactions']: "zip" is not a column of the tables
FeatureInteractions == <<<<"age", "age">>, <<"age", "zip">>>>

\* Series.fillna(x); fillna(NaN) changes nothing
FillNa(vals, x) == [i \in DOMAIN vals |-> IF IsNaN(vals[i]) THEN x ELSE vals[i]]

\* variant of process_column that drops the missing values (dropna)
ProcessColumnDropNa(col, strategy) ==
    [col EXCEPT !.vals = NonNull(col.vals)]

\* process_column of _handle_missing_values, lines 85-94
ProcessColumn(col, strategy) ==
    IF AnyNull(col.vals)
    THEN IF col.dtype = "num"
         THEN IF strategy = "mean"
              THEN [col EXCEPT !.vals = FillNa(@, Mean(col.vals))]
              ELSE IF strategy = "median"
              THEN [col EXCEPT !.vals = FillNa(@, Median(col.vals))]
              ELSE col
         ELSE [col EXCEPT !.vals = FillNa(@, Mode(col.vals))]
    ELSE col

\* df[col].mode()[0] on an object column without a value: mode() is empty
ProcessColumnRaises(col) ==
    /\ col.dtype = "obj"
    /\ AnyNull(col.vals)
    /\ NonNull(col.vals) = <<>>

\* variant that compares the deviation itself, not divided by std
ZScoreExceedsRawDeviation(vals, x, threshold) ==
    /\ ~IsNaN(x)
    /\ QLess(threshold, Q(Abs(QSub(x, Mean(vals)).n), QSub(x, Mean(vals)).d))

\* z_scores > threshold for the value x of a column, with
\* z = |x - mean| / std and std the sample standard deviation (ddof = 1):
\* z > t  iff  (x - mean)^2 * (n - 1) > t^2 * sum of squares.
\* std is NaN for fewer than two values and 0 for a constant column; both
\* make the comparison False.
ZScoreExceeds(vals, x, threshold) ==
    LET n   == Len(NonNull(vals))
        ss  == SumSq(vals)
        dev == QSub(x, Mean(vals))
    IN /\ ~IsNaN(x)
       /\ n >= 2
       /\ ss.n # 0
       /\ QLess(QMul(QMul(threshold, threshold), ss),
                QMul(QMul(dev, dev), QInt(n - 1)))

\* variant that puts the column mean in the place of an outlier
ProcessColumnOutliersByMean(col, threshold) ==
    IF col.dtype = "num"
    THEN [col EXCEPT !.vals =
             [i \in DOMAIN col.vals |->
                 IF ZScoreExceeds(col.vals, col.vals[i], threshold)
                 THEN Mean(col.vals)
                 ELSE col.vals[i]]]
    ELSE col

\* process_column_outliers, lines 109-114 (method zscore)
ProcessColumnOutliers(col, threshold) ==
    IF col.dtype = "num"
    THEN [col EXCEPT !.vals =
             [i \in DOMAIN col.vals |->
                 IF ZScoreExceeds(col.vals, col.vals[i], threshold)
                 THEN Median(col.vals)
                 ELSE col.vals[i]]]
    ELSE col

ColumnByName(df, name) == df[CHOOSE i \in DOMAIN df : df[i].name = name]

\* _engineer_features, lines 120-127: the product column is added to df
RECURSIVE EngineerFeatures(_, _)
EngineerFeatures(df, pairs) ==
    IF pairs = <<>>
    THEN df
    ELSE LET p == Head(pairs)
         IN IF {p[1], p[2]} \subseteq ColumnNames(df)
            THEN LET a == ColumnByName(df, p[1]).vals
                     b == ColumnByName(df, p[2]).vals
                     prod == Column(p[1] \o "_" \o p[2] \o "_interaction",
                                    "num",
                                    [i \in DOMAIN a |-> QMul(a[i], b[i])])
                 IN EngineerFeatures(
                        IF prod.name \in ColumnNames(df)
                        THEN [i \in DOMAIN df |->
                                 IF df[i].name = prod.name THEN prod
                                 ELSE df[i]]
                        ELSE Append(df, prod),
                        Tail(pairs))
            ELSE EngineerFeatures(df, Tail(pairs))

\* encode_column, lines 137-142: LabelEncoder on astype(str); the code of a
\* value is its rank among the sorted distinct strings of the column
EncodeColumn(col) ==
    IF col.dtype = "obj"
    THEN LET present == {CatOf(col.vals[k]) : k \in DOMAIN col.vals}
         IN [col EXCEPT
                !.dtype = "num",
                !.vals = [i \in DOMAIN col.vals |->
                            QInt(Cardinality(
                                {s \in present :
                                    CatRank(s) < CatRank(CatOf(col.vals[i]))}))]]
    ELSE col

\* population variance used by StandardScaler (NaN ignored)
Variance(vals) ==
    LET n == Len(NonNull(vals))
    IN IF n = 0 THEN NaN ELSE QDiv(SumSq(vals), QInt(n))

\* scale_column, lines 157-170.  z = (x - mean) / std is irrational in
\* general; a scaled cell holds z * |z| = sign(x - mean) (x - mean)^2 / var,
\* which determines z.  A zero variance makes StandardScaler divide by 1.
ScaleColumn(col) ==
    IF col.dtype = "num"
    THEN LET m == Mean(col.vals)
             var == Variance(col.vals)
             scaled(x) ==
                 IF IsNaN(x) \/ IsNaN(var) THEN NaN
                 ELSE IF var.n = 0 THEN QInt(0)
                 ELSE LET dv == QSub(x, m)
                          sq == QDiv(QMul(dv, dv), var)
                      IN IF dv.n < 0 THEN QSub(QInt(0), sq) ELSE sq
         IN [col EXCEPT !.vals = [i \in DOMAIN col.vals |-> scaled(col.vals[i])]]
    ELSE col

\* the entry of self._feature_stats written by scale_column: mean and
\* std^2 of the scaler
FeatureStats(col) == [mean |-> Mean(col.vals), var |-> Variance(col.vals)]

\* a call in progress: `cfg` is self.config, `input` the table as it was
\* passed, `caller` the caller's table object as it is now, `df` the local
\* `data`, `alias` whether `data` still is the caller's object,
\* `feature_stats` is self._feature_stats
InitTransform ==
    /\ OrchInit
    /\ aug = LeafOff
    /\ LeavesOff
    /\ \E table \in TTables \cup ScenarioTables, cfg \in TConfigs :
          tr = [pc |-> "handle_missing", cfg |-> cfg, input |-> table,
                caller |-> table, df |-> table, alias |-> TRUE,
                feature_stats |-> <<>>]

\* a step that assigns its columns into df (df[col] = ...) and returns the
\* concatenation of the columns, a new frame
InPlaceStep(newdf, nextpc) ==
    [tr EXCEPT !.pc = nextpc,
               !.df = newdf,
               !.caller = IF tr.alias THEN newdf ELSE @,
               !.alias = FALSE]

\* lines 37-39 and _handle_missing_values: fillna returns new columns
HandleMissingValues ==
    /\ tr.pc = "handle_missing"
    /\ IF tr.cfg.handle_missing
       THEN IF \E i \in DOMAIN tr.df : ProcessColumnRaises(tr.df[i])
            THEN tr' = [tr EXCEPT !.pc = "raised"]
            ELSE tr' = [tr EXCEPT
                          !.pc = "handle_outliers",
                          !.df = [i \in DOMAIN tr.df |->
                                     ProcessColumn(tr.df[i],
                                         tr.cfg.missing_values_strategy)],
                          !.alias = FALSE]
       ELSE tr' = [tr EXCEPT !.pc = "handle_outliers"]
    /\ UNCHANGED <<orchVars, aug, leafVars>>

\* lines 41-43 and _handle_outliers
HandleOutliers ==
    /\ tr.pc = "handle_outliers"
    /\ IF tr.cfg.handle_outliers
       THEN tr' = InPlaceStep([i \in DOMAIN tr.df |->
                                  ProcessColumnOutliers(tr.df[i],
                                      tr.cfg.outlier_threshold)],
                              "feature_engineering")
       ELSE tr' = [tr EXCEPT !.pc = "feature_engineering"]
    /\ UNCHANGED <<orchVars, aug, leafVars>>

\* lines 45-47 and _engineer_features, which returns df itself
FeatureEngineering ==
    /\ tr.pc = "feature_engineering"
    /\ IF tr.cfg.feature_engineering
       THEN LET newdf == EngineerFeatures(tr.df, FeatureInteractions)
            IN tr' = [tr EXCEPT !.pc = "encode_categorical",
                                !.df = newdf,
                                !.caller = IF tr.alias THEN newdf ELSE @]
       ELSE tr' = [tr EXCEPT !.pc = "encode_categorical"]
    /\ UNCHANGED <<orchVars, aug, leafVars>>

\* lines 49-51 and _encode_categorical
EncodeCategorical ==
    /\ tr.pc = "encode_categorical"
    /\ IF tr.cfg.encode_categorical
       THEN tr' = InPlaceStep([i \in DOMAIN tr.df |-> EncodeColumn(tr.df[i])],
                              "scale_numerical")
       ELSE tr' = [tr EXCEPT !.pc = "scale_numerical"]
    /\ UNCHANGED <<orchVars, aug, leafVars>>

\* lines 53-55 and _scale_numerical
ScaleNumerical ==
    /\ tr.pc = "scale_numerical"
    /\ IF tr.cfg.scale_numerical
       THEN tr' = [InPlaceStep([i \in DOMAIN tr.df |-> ScaleColumn(tr.df[i])],
                               "return")
                     EXCEPT !.feature_stats =
                         [i \in {k \in DOMAIN tr.df : tr.df[k].dtype = "num"}
                             |-> FeatureStats(tr.df[i])]]
       ELSE tr' = [tr EXCEPT !.pc = "return"]
    /\ UNCHANGED <<orchVars, aug, leafVars>>

\* line 61: return data.values, self._feature_stats (no save_path)
ReturnValues ==
    /\ tr.pc = "return"
    /\ tr' = [tr EXCEPT !.pc = "returned"]
    /\ UNCHANGED <<orchVars, aug, leafVars>>

NextTransform ==
    \/ HandleMissingValues
    \/ HandleOutliers
    \/ FeatureEngineering
    \/ EncodeCategorical
    \/ ScaleNumerical
    \/ ReturnValues

SpecTransform == InitTransform /\ [][NextTransform]_vars

(***************************************************************************)
(* DataAugmenter.augment_dataset                                           *)
(*                                                                         *)
(* A table here has one numeric column x and, if hasTime, one datetime     *)
(* column; only the cells of x are kept.                                   *)
(***************************************************************************)
\* largest number of rows of the tables handed to augment_dataset
AMaxRows == 4
\* number of states of the global numpy random generator
RngMod == 3

ATables ==
    UNION {[hasTime : BOOLEAN, x : [1..n -> {QInt(0), QInt(8)}]] :
             n \in 1..AMaxRows}

\* np.random: every draw is a function of the generator state and moves
\* the state on; Draw(s, k) is the state seen by the k-th draw from s
Draw(s, k) == (s + k - 1) % RngMod

\* np.random.randint(0, len): an index, 1-based here
RandInt(s, len) == (s % len) + 1

\* np.random.beta(0.4, 0.4) and np.random.uniform(0, 1)
RandWeight(s) ==
    LET Weights == <<Q(1, 4), Q(1, 2), Q(3, 4)>>
    IN Weights[(s % Len(Weights)) + 1]

\* np.random.normal(0, 1), to be multiplied by the scale
RandNormal(s) ==
    LET Normals == <<Q(-1, 1), QInt(0), QInt(1)>>
    IN Normals[(s % Len(Normals)) + 1]

\* n_samples = int(len(df) * augmentation_factor)
NSamples(len, factor) == (len * factor.n) \div factor.d

\* the value of the cubic interpolant of column x at the i-th sorted
\* jittered time point: not computed, kept as a cell of its own kind
Warped(i) == [t |-> "warped", at |-> i]

\* _apply_mixup, lines 73-92: n new rows w * row1 + (1 - w) * row2; the
\* draws are idx1 (n draws), idx2 (n draws), weights (n draws)
MixupSamples(x, n, s) ==
    [i \in 1..n |->
        LET v1 == x[RandInt(Draw(s, i), Len(x))]
            v2 == x[RandInt(Draw(s, n + i), Len(x))]
            w  == RandWeight(Draw(s, 2 * n + i))
        IN QAdd(QMul(w, v1), QMul(QSub(QInt(1), w), v2))]

\* _apply_random_interpolation, lines 100-118: val1 + alpha * (val2 - val1)
InterpolationSamples(x, n, s) ==
    [i \in 1..n |->
        LET v1 == x[RandInt(Draw(s, i), Len(x))]
            v2 == x[RandInt(Draw(s, n + i), Len(x))]
            a  == RandWeight(Draw(s, 2 * n + i))
        IN QAdd(v1, QMul(a, QSub(v2, v1)))]

\* _apply_gaussian_noise, lines 126-139: a sampled row plus
\* normal(0, std * 0.1).  The noise is a multiple of the model's unit; it is
\* NaN when std is NaN (one row) and 0 when std is 0 (constant column).
NoisySamples(x, n, s) ==
    [i \in 1..n |->
        LET v == x[RandInt(Draw(s, 2 * i - 1), Len(x))]
            noise == IF Len(x) < 2 THEN NaN
                     ELSE IF SumSq(x).n = 0 THEN QInt(0)
                     ELSE RandNormal(Draw(s, 2 * i))
        IN QAdd(v, noise)]

\* _apply_time_warping, lines 150-170: every new sample is df.copy() with
\* the numeric columns interpolated: len(df) rows per sample
RECURSIVE WarpedSamples(_, _)
WarpedSamples(x, n) ==
    IF n = 0 THEN <<>>
    ELSE WarpedSamples(x, n - 1) \o [i \in DOMAIN x |-> Warped(i)]

\* AugmentationConfig.random_state, schemas/pipeline.py:23; no code reads it
RandomState == 42

\* a call in progress: `data` the table passed, `rng` the generator state
\* at the call, `augmented` the table built by the method (<<>> before),
\* `random_state` the seed of the augmentation config, `call` the number of
\* the call and `first` what the first call handed back
AugStart(table, method, factor, s) ==
    [pc |-> "dispatch", data |-> table, method |-> method,
     factor |-> factor, rng |-> s, augmented |-> <<>>, stats |-> <<>>,
     random_state |-> RandomState, call |-> 1, first |-> [kind |-> "none"]]

InitAugment ==
    /\ OrchInit
    /\ tr = LeafOff
    /\ LeavesOff
    \* augmentation_factor: fractions a float represents exactly
    /\ \E table \in ATables, method \in SupportedMethods \cup {"bogus"},
          factor \in {QInt(0), Q(1, 4), Q(1, 2), QInt(1)},
          s \in 0..(RngMod - 1) :
          aug = AugStart(table, method, factor, s)

AugN == NSamples(Len(aug.data.x), aug.factor)

AugmentedSamplesFirst(samples) ==
    [aug EXCEPT !.pc = "calculate_stats",
                !.augmented = samples \o aug.data.x]

\* the method returned pd.concat([df, augmented_samples], ignore_index=True)
Augmented(samples) ==
    [aug EXCEPT !.pc = "calculate_stats",
                !.augmented = aug.data.x \o samples]

AugRaise == [aug EXCEPT !.pc = "raised"]

\* line 41: DataAugmenter has no _apply_smote
ApplySmote ==
    /\ aug.pc = "dispatch"
    /\ aug.method = "smote"
    /\ aug' = AugRaise
    /\ UNCHANGED <<orchVars, tr, leafVars>>

\* lines 42-43; df.iloc[i].values holds Timestamps when there is a datetime
\* column, and weight * Timestamp raises TypeError
ApplyMixup ==
    /\ aug.pc = "dispatch"
    /\ aug.method = "mixup"
    /\ IF aug.data.hasTime /\ AugN > 0
       THEN aug' = AugRaise
       ELSE aug' = Augmented(MixupSamples(aug.data.x, AugN, aug.rng))
    /\ UNCHANGED <<orchVars, tr, leafVars>>

\* lines 44-45
ApplyRandomInterpolation ==
    /\ aug.pc = "dispatch"
    /\ aug.method = "random_interpolation"
    /\ aug' = Augmented(InterpolationSamples(aug.data.x, AugN, aug.rng))
    /\ UNCHANGED <<orchVars, tr, leafVars>>

\* lines 46-47; pd.concat(new_samples) raises on an empty list
ApplyGaussianNoise ==
    /\ aug.pc = "dispatch"
    /\ aug.method = "gaussian_noise"
    /\ IF AugN = 0
       THEN aug' = AugRaise
       ELSE aug' = Augmented(NoisySamples(aug.data.x, AugN, aug.rng))
    /\ UNCHANGED <<orchVars, tr, leafVars>>

\* lines 48-49; raises without a datetime column, on an empty list of
\* samples (pd.concat) and on fewer than four rows (cubic interp1d)
ApplyTimeWarping ==
    /\ aug.pc = "dispatch"
    /\ aug.method = "time_warp"
    /\ IF ~aug.data.hasTime \/ AugN = 0 \/ Len(aug.data.x) < 4
       THEN aug' = AugRaise
       ELSE aug' = Augmented(WarpedSamples(aug.data.x, AugN))
    /\ UNCHANGED <<orchVars, tr, leafVars>>

\* lines 50-51
UnsupportedMethod ==
    /\ aug.pc = "dispatch"
    /\ aug.method \notin SupportedMethods
    /\ aug' = AugRaise
    /\ UNCHANGED <<orchVars, tr, leafVars>>

\* lines 53-61 and _calculate_augmentation_stats: range_expansion divides
\* by the range of the original column as Python floats, so a constant
\* column raises ZeroDivisionError
CalculateAugmentationStats ==
    /\ aug.pc = "calculate_stats"
    /\ IF SumSq(aug.data.x).n = 0
       THEN aug' = AugRaise
       ELSE aug' = [aug EXCEPT
                      !.pc = "returned",
                      !.stats = [method |-> aug.method,
                                 original_samples |-> Len(aug.data.x),
                                 augmented_samples |-> Len(aug.augmented)]]
    /\ UNCHANGED <<orchVars, tr, leafVars>>

\* the number of draws a call took from the generator: idx1, idx2 and the
\* weights (lines 76-80, 104-106), df.sample and the noise (lines 132-134),
\* the jitter of every time point (line 158; one sample only when interp1d
\* then raises)
DrawsUsed(a) ==
    LET len == Len(a.data.x)
        n == NSamples(len, a.factor)
    IN CASE a.method \in {"mixup", "random_interpolation"} -> 3 * n
         [] a.method = "gaussian_noise" -> 2 * n
         [] a.method = "time_warp" ->
                IF ~a.data.hasTime \/ n = 0 THEN 0
                ELSE IF len < 4 THEN len
                ELSE n * len
         [] OTHER -> 0

\* the caller calls augment_dataset again with the same table, method and
\* factor, after k other draws from the global generator; nothing seeds
\* the generator, so the call starts where the draws so far left it;
\* `first` is what the finished call handed to its caller
SecondCall ==
    /\ aug.pc \in {"returned", "raised"}
    /\ aug.call = 1
    /\ \E k \in 0..(RngMod - 1) :
          aug' = [AugStart(aug.data, aug.method, aug.factor,
                           Draw(aug.rng, DrawsUsed(aug) + k + 1))
                    EXCEPT !.call = 2,
                           !.first = IF aug.pc = "returned"
                                     THEN [kind |-> "returned",
                                           augmented |-> aug.augmented]
                                     ELSE [kind |-> "raised"]]
    /\ UNCHANGED <<orchVars, tr, leafVars>>

NextAugment ==
    \/ SecondCall
    \/ ApplySmote
    \/ ApplyMixup
    \/ ApplyRandomInterpolation
    \/ ApplyGaussianNoise
    \/ ApplyTimeWarping
    \/ UnsupportedMethod
    \/ CalculateAugmentationStats

SpecAugment == InitAugment /\ [][NextAugment]_vars

(***************************************************************************)
(* DataValidator.validate_dataset                                          *)
(*                                                                         *)
(* A table is a sequence of columns [name, dtype, vals] with the dtype     *)
(* names pandas prints ("float64", "object"); <<>> is the table without    *)
(* columns.  A violation message is kept as a record of its parts.         *)
(***************************************************************************)
\* largest number of rows of the tables handed to validate_dataset
VMaxRows == 2


VTables ==
    {<<>>} \cup
    UNION {{<<Column("age", "float64", a)>> : a \in [1..n -> NumCells]}
           \cup {<<Column("age", "float64", a), Column("city", "object", c)>> :
                    a \in [1..n -> NumCells], c \in [1..n -> {NaN, Str("a")}]} :
           n \in 0..VMaxRows}

\* DataValidationConfig, lines 11-15: the four declared fields.  A dict is
\* kept as the sequence of its items (or keys) in insertion order;
\* required_columns, of which only the key set is used, as that set.
\* "zip" is not a column of the tables.
VConfigs ==
    [required_columns : {{}, {"age"}, {"age", "zip"}},
     column_types     : {<<>>,
                         <<<<"age", "Float">>>>,
                         <<<<"age", "int">>, <<"city", "object">>,
                           <<"zip", "int">>>>},
     value_ranges     : {<<>>,
                         <<<<"city", <<"min", "max">>>>>>,
                         <<<<"zip", <<"min", "max">>>>,
                           <<"age", <<"min", "max">>>>>>,
                         <<<<"zip", <<"min">>>>>>},
     unique_columns   : {<<>>, <<"age">>, <<"city", "zip", "age">>}]

\* what a check hands back: the messages it found, or the exception
Found(errors) == [raised |-> "none", errors |-> errors]
Raised(exc) == [raised |-> exc, errors |-> <<>>]

\* lines 56-66
CheckRequiredColumns(df, config) ==
    LET missing_columns == config.required_columns \ ColumnNames(df)
    IN IF missing_columns # {}
       THEN Found(<<[rule |-> "required", columns |-> missing_columns]>>)
       ELSE Found(<<>>)

\* expected_type.lower() on the declared types of VConfigs
Lower(s) == IF s = "Float" THEN "float" ELSE s

\* lines 157-170
IsCompatibleType(actual_type, expected_type) ==
    LET e == Lower(expected_type)
        names ==
            CASE e = "int"      -> {"int64", "int32", "int16", "int8"}
              [] e = "float"    -> {"float64", "float32", "float16"}
              [] e = "string"   -> {"object", "string"}
              [] e = "boolean"  -> {"bool"}
              [] e = "datetime" -> {"datetime64[ns]", "datetime64"}
              [] OTHER          -> {expected_type}
    IN actual_type \in names

\* lines 68-80
RECURSIVE CheckColumnTypes(_, _)
CheckColumnTypes(df, items) ==
    IF items = <<>> THEN <<>>
    ELSE LET column == Head(items)[1]
             expected_type == Head(items)[2]
             here ==
                 IF column \in ColumnNames(df)
                    /\ ~IsCompatibleType(ColumnByName(df, column).dtype,
                                         expected_type)
                 THEN <<[rule |-> "type", column |-> column,
                         actual |-> ColumnByName(df, column).dtype,
                         expected |-> expected_type]>>
                 ELSE <<>>
         IN here \o CheckColumnTypes(df, Tail(items))

\* Python's order on the strings of the model
StrLess(s, t) ==
    LET StrOrder == <<"a", "b", "max", "min">>
    IN (CHOOSE i \in DOMAIN StrOrder : StrOrder[i] = s)
           < (CHOOSE i \in DOMAIN StrOrder : StrOrder[i] = t)

\* lines 82-99.  `for column, (min_val, max_val) in ...items()` unpacks the
\* inner dict, i.e. its KEYS: ValueError unless there are exactly two, and
\* min_val, max_val are then the key strings.  Comparing a numeric column
\* with a string raises TypeError; in an object column a missing value
\* compares False and a string compares by Python's string order.
RECURSIVE CheckValueRanges(_, _)
CheckValueRanges(df, items) ==
    IF items = <<>> THEN Found(<<>>)
    ELSE LET column == Head(items)[1]
             keys == Head(items)[2]
         IN IF Len(keys) # 2 THEN Raised("ValueError")
            ELSE IF column \in ColumnNames(df)
                    /\ ColumnByName(df, column).dtype # "object"
            THEN Raised("TypeError")
            ELSE LET vals == IF column \in ColumnNames(df)
                             THEN ColumnByName(df, column).vals ELSE <<>>
                     out_of_range ==
                         {i \in DOMAIN vals :
                             /\ ~IsNaN(vals[i])
                             /\ \/ StrLess(vals[i].s, keys[1])
                                \/ StrLess(keys[2], vals[i].s)}
                     here ==
                         IF out_of_range # {}
                         THEN <<[rule |-> "range", column |-> column,
                                 count |-> Cardinality(out_of_range),
                                 min_val |-> keys[1], max_val |-> keys[2]]>>
                         ELSE <<>>
                     rest == CheckValueRanges(df, Tail(items))
                 IN IF rest.raised # "none" THEN rest
                    ELSE Found(here \o rest.errors)

\* lines 101-113; Series.duplicated(): the values equal to an earlier one
\* (missing values are equal to each other)
RECURSIVE CheckUniqueConstraints(_, _)
CheckUniqueConstraints(df, columns) ==
    IF columns = <<>> THEN <<>>
    ELSE LET column == Head(columns)
             duplicates == IF column \in ColumnNames(df)
                           THEN LET vals == ColumnByName(df, column).vals
                                IN {i \in DOMAIN vals :
                                       \E j \in 1..(i - 1) : vals[j] = vals[i]}
                           ELSE {}
             here == IF duplicates # {}
                     THEN <<[rule |-> "unique", column |-> column,
                             count |-> Cardinality(duplicates)]>>
                     ELSE <<>>
         IN here \o CheckUniqueConstraints(df, Tail(columns))

\* lines 115-129: the loop body reads self.config.max_missing_ratio, which
\* DataValidationConfig does not declare (AttributeError on the first
\* column)
CheckMissingValues(df, config) ==
    IF df # <<>> THEN Raised("AttributeError") ELSE Found(<<>>)

\* Series.nunique(): the number of distinct values that are not missing
NUnique(vals) == Cardinality({vals[i] : i \in {k \in DOMAIN vals : ~IsNaN(vals[k])}})

\* lines 131-155; nunique() / len(df) divides two Python numbers
CheckDataQuality(df) ==
    LET constant_columns ==
            SelectSeq([i \in DOMAIN df |-> df[i]],
                      LAMBDA c : NUnique(c.vals) = 1)
        constant ==
            IF constant_columns # <<>>
            THEN <<[rule |-> "constant",
                    columns |-> [i \in DOMAIN constant_columns |->
                                    constant_columns[i].name]]>>
            ELSE <<>>
        categorical_columns ==
            SelectSeq([i \in DOMAIN df |-> df[i]],
                      LAMBDA c : c.dtype = "object")
        cardinality ==
            SelectSeq([i \in DOMAIN categorical_columns |->
                          [rule |-> "cardinality",
                           column |-> categorical_columns[i].name,
                           unique |-> NUnique(categorical_columns[i].vals),
                           rows |-> Rows(df)]],
                      LAMBDA m : m.unique * 10 > 9 * m.rows)
    IN IF categorical_columns # <<>> /\ Rows(df) = 0
       THEN Raised("ZeroDivisionError")
       ELSE Found(constant \o cardinality)

ValCallSharedErrors(v) ==
    [v EXCEPT !.pc = "required", !.error = "none"]

\* line 25: a call starts with its own empty list of messages
ValCall(v) ==
    [v EXCEPT !.pc = "required", !.errors = <<>>, !.error = "none"]

\* a validator with its config, the table it is called on, the position
\* in the call, the number of the call and the outcome of the first call
InitValidate ==
    /\ OrchInit
    /\ tr = LeafOff
    /\ aug = LeafOff
    /\ norm = LeafOff
    /\ cleanup = LeafOff
    /\ pool = LeafOff
    /\ dep = LeafOff
    /\ pipe = LeafOff
    /\ \E df \in VTables, config \in VConfigs :
          val = ValCall([pc |-> "off", df |-> df, config |-> config,
                         errors |-> <<>>, error |-> "none", call |-> 1,
                         first |-> [kind |-> "none"]])

\* errors.extend(check) and on to the next check, or the exception of the
\* check, logged and re-raised by lines 52-54
ValExtend(found, nextpc) ==
    IF found.raised # "none"
    THEN [val EXCEPT !.pc = "raised", !.error = found.raised]
    ELSE [val EXCEPT !.pc = nextpc, !.errors = val.errors \o found.errors]

\* lines 29-30
ValRequiredColumns ==
    /\ val.pc = "required"
    /\ val' = ValExtend(IF val.config.required_columns # {}
                        THEN CheckRequiredColumns(val.df, val.config)
                        ELSE Found(<<>>), "types")
    /\ UNCHANGED <<orchVars, tr, aug, norm, cleanup, pool, dep, pipe>>

\* lines 33-34
ValColumnTypes ==
    /\ val.pc = "types"
    /\ val' = ValExtend(Found(CheckColumnTypes(val.df, val.config.column_types)),
                        "ranges")
    /\ UNCHANGED <<orchVars, tr, aug, norm, cleanup, pool, dep, pipe>>

\* lines 37-38
ValValueRanges ==
    /\ val.pc = "ranges"
    /\ val' = ValExtend(CheckValueRanges(val.df, val.config.value_ranges),
                        "unique")
    /\ UNCHANGED <<orchVars, tr, aug, norm, cleanup, pool, dep, pipe>>

\* lines 41-42
ValUniqueConstraints ==
    /\ val.pc = "unique"
    /\ val' = ValExtend(Found(CheckUniqueConstraints(val.df,
                                  val.config.unique_columns)), "missing")
    /\ UNCHANGED <<orchVars, tr, aug, norm, cleanup, pool, dep, pipe>>

\* line 45
ValMissingValues ==
    /\ val.pc = "missing"
    /\ val' = ValExtend(CheckMissingValues(val.df, val.config), "quality")
    /\ UNCHANGED <<orchVars, tr, aug, norm, cleanup, pool, dep, pipe>>

\* lines 48-50: the last check and `return len(errors) == 0, errors`
ValDataQuality ==
    /\ val.pc = "quality"
    /\ val' = ValExtend(CheckDataQuality(val.df), "returned")
    /\ UNCHANGED <<orchVars, tr, aug, norm, cleanup, pool, dep, pipe>>

\* what a finished call handed to its caller
ValOutcome(v) ==
    IF v.pc = "returned"
    THEN [kind |-> "report", is_valid |-> Len(v.errors) = 0,
          violations |-> v.errors]
    ELSE [kind |-> "raised", error |-> v.error]

\* the caller calls validate_dataset again, same validator, same table
ValidateAgain ==
    /\ val.pc \in {"returned", "raised"}
    /\ val.call = 1
    /\ val' = ValCall([val EXCEPT !.call = 2, !.first = ValOutcome(val)])
    /\ UNCHANGED <<orchVars, tr, aug, norm, cleanup, pool, dep, pipe>>

NextValidate ==
    \/ ValRequiredColumns
    \/ ValColumnTypes
    \/ ValValueRanges
    \/ ValUniqueConstraints
    \/ ValMissingValues
    \/ ValDataQuality
    \/ ValidateAgain

SpecValidate == InitValidate /\ [][NextValidate]_vars

(***************************************************************************)
(* PipelineIntegrationService.clean_old_pipelines                          *)
(***************************************************************************)
\* largest max_age_days handed to clean_old_pipelines
MaxAgeDays == 1

\* seconds in a day: timedelta.days counts whole days
SecondsPerDay == 86400

\* the service some time after its runs: records started at the seconds of
\* Ids, each with or without its directory under base_path
InitCleanup ==
    /\ clock = MaxClock
    /\ stats \in {[i \in Ids |->
                      IF i \in kept
                      THEN [start_time |-> i,
                            stages |-> {"preprocessing", "analysis"},
                            errors |-> <<>>, warnings |-> <<>>,
                            end_time |-> i]
                      ELSE NoRecord] : kept \in SUBSET Ids}
    /\ disk \in [Ids -> {0, 1}]
    /\ run = [pc |-> "idle"]
    /\ finished = <<>>
    /\ pre = 0
    /\ tr = LeafOff
    /\ aug = LeafOff
    /\ val = LeafOff
    /\ norm = LeafOff
    /\ cleanup = LeafOff
    /\ pool = LeafOff
    /\ dep = LeafOff
    /\ pipe = LeafOff

\* half a day goes by
TimePasses ==
    /\ cleanup.pc = "off"
    /\ clock < MaxClock + (2 * MaxAgeDays + 2) * (SecondsPerDay \div 2)
    /\ clock' = clock + SecondsPerDay \div 2
    /\ UNCHANGED <<stats, disk, run, finished, pre, tr, aug, val, norm, cleanup, pool, dep, pipe>>

\* line 246: (current_time - start_time).days > max_age_days
IsOld(rec, now, max_age_days) ==
    (now - rec.start_time) \div SecondsPerDay > max_age_days

\* lines 240-257: the ids are visited in the order of the dict, which is
\* the order of the start times; the record of an old run is deleted after
\* its directory was removed.  shutil.rmtree may raise: the except clause
\* logs the error and the loop is over (failed_at, -1 if nothing raised).
CleanOldPipelines(max_age_days, failed_at) ==
    LET removed(i) ==
            /\ stats[i] # NoRecord
            /\ IsOld(stats[i], clock, max_age_days)
            /\ (failed_at = -1 \/ i < failed_at)
    IN /\ cleanup.pc = "off"
       /\ failed_at # -1 =>
             /\ stats[failed_at] # NoRecord
             /\ IsOld(stats[failed_at], clock, max_age_days)
             /\ disk[failed_at] # 0
       /\ stats' = [i \in Ids |-> IF removed(i) THEN NoRecord ELSE stats[i]]
       /\ disk' = [i \in Ids |-> IF removed(i) THEN 0 ELSE disk[i]]
       /\ cleanup' = [pc |-> "done", max_age_days |-> max_age_days,
                      now |-> clock, before |-> stats]
       /\ UNCHANGED <<clock, run, finished, pre, tr, aug, val, norm, pool, dep, pipe>>

NextCleanup ==
    \/ TimePasses
    \/ \E max_age_days \in 0..MaxAgeDays, failed_at \in Ids \cup {-1} :
          CleanOldPipelines(max_age_days, failed_at)

SpecCleanup == InitCleanup /\ [][NextCleanup]_vars

(***************************************************************************)
(* convert_numpy_types (app.utils.serialization), the Numeric Normalizer   *)
(*                                                                         *)
(* A value is a scalar [k, v], k the type of the scalar, or a container    *)
(* [k, keys, items]: a list, an ndarray, or a dict with its keys in        *)
(* insertion order and the value of the i-th key as the i-th item.         *)
(***************************************************************************)
\* deepest nesting of the values handed to the normalizer
NMaxDepth == 2

Scalar(k, v) == [k |-> k, v |-> v]

NScalars ==
    {Scalar("np.int64", 1), Scalar("int", 1), Scalar("np.float64", 1),
     Scalar("np.bool_", 1), Scalar("None", 0)}

Container(k, keys, items) == [k |-> k, keys |-> keys, items |-> items]

RECURSIVE NValues(_)
NValues(depth) ==
    IF depth = 0 THEN NScalars
    ELSE LET inner == NValues(depth - 1)
             \* no item, one item, or a scalar and an item
             seqs == {<<>>} \cup {<<x>> : x \in inner}
                     \cup {<<a, x>> : a \in NScalars, x \in inner}
         IN NScalars
            \cup {Container(k, <<>>, items) :
                     k \in {"list", "ndarray"}, items \in seqs}
            \cup {Container("dict", <<"a">>, <<x>>) : x \in inner}
            \cup {Container("dict", <<"b", "a">>, <<a, x>>) :
                     a \in NScalars, x \in inner}

IsScalar(x) == x.k \notin {"list", "ndarray", "dict"}

\* the portable form of a scalar: the value is the same
PortableScalar(x) ==
    CASE x.k = "np.int64"   -> Scalar("int", x.v)
      [] x.k = "np.float64" -> Scalar("float", x.v)
      [] x.k = "np.bool_"   -> Scalar("bool", x.v)
      [] OTHER              -> x

NormalizeTopLevel(x) ==
    IF IsScalar(x) THEN PortableScalar(x)
    ELSE Container(IF x.k = "ndarray" THEN "list" ELSE x.k, x.keys, x.items)

\* the normalizer: scalars become portable, sequences and mappings are
\* walked with their order and keys kept, an array becomes a list
RECURSIVE Normalize(_)
Normalize(x) ==
    IF IsScalar(x) THEN PortableScalar(x)
    ELSE Container(IF x.k = "ndarray" THEN "list" ELSE x.k, x.keys,
                   [i \in DOMAIN x.items |-> Normalize(x.items[i])])

InitNormalize ==
    /\ OrchInit
    /\ tr = LeafOff
    /\ aug = LeafOff
    /\ val = LeafOff
    /\ cleanup = LeafOff
    /\ pool = LeafOff
    /\ dep = LeafOff
    /\ pipe = LeafOff
    /\ \E x \in NValues(NMaxDepth) :
          norm = [pc |-> "results", x |-> x, once |-> Scalar("None", 0),
                  twice |-> Scalar("None", 0)]

\* api/v1/pipeline.py:86-89: the results are normalized and stored
StoreResults ==
    /\ norm.pc = "results"
    /\ norm' = [norm EXCEPT !.pc = "stored", !.once = Normalize(norm.x)]
    /\ UNCHANGED <<orchVars, tr, aug, val, cleanup, pool, dep, pipe>>

\* models/pipeline.py:85-92: results_json normalizes the stored results
ResultsJson ==
    /\ norm.pc = "stored"
    /\ norm' = [norm EXCEPT !.pc = "read", !.twice = Normalize(norm.once)]
    /\ UNCHANGED <<orchVars, tr, aug, val, cleanup, pool, dep, pipe>>

NextNormalize ==
    \/ StoreResults
    \/ ResultsJson

SpecNormalize == InitNormalize /\ [][NextNormalize]_vars

(***************************************************************************)
(* The worker threads of one parallel step of process_pipeline             *)
(*                                                                         *)
(* executor.map(worker, df.columns) hands every column to a thread of the  *)
(* pool; the threads run interleaved on the one frame df.  A worker is     *)
(* followed through the evaluation of the right-hand side of its           *)
(* assignment, the assignment df[col] = ..., and its return.               *)
(***************************************************************************)
\* frames of two numeric and two object columns
PoolTables ==
    {<<Column("age", "num", a), Column("income", "num", b),
       Column("city", "obj", c), Column("zone", "obj", <<Str("b"), Str("a")>>)>> :
        a \in [1..2 -> NumCells],
        b \in {<<QInt(0), QInt(9)>>, <<NaN, QInt(9)>>},
        c \in [1..2 -> ObjCells]}

\* the steps that fan out, and whether their worker assigns df[col]
ParallelSteps ==
    [handle_missing |-> FALSE, handle_outliers |-> TRUE,
     encode_categorical |-> TRUE, scale_numerical |-> TRUE]

\* the worker of a step applied to a column: process_column (strategy
\* mean), process_column_outliers (threshold 1/2), encode_column,
\* scale_column
StepWorker(step, col) ==
    CASE step = "handle_missing"     -> ProcessColumn(col, "mean")
      [] step = "handle_outliers"    -> ProcessColumnOutliers(col, Q(1, 2))
      [] step = "encode_categorical" -> EncodeColumn(col)
      [] step = "scale_numerical"    -> ScaleColumn(col)

\* variant in which every worker reads the first column of the frame
WorkerReadsFirst(df, c) == [df[1] EXCEPT !.name = df[c].name]

\* df[col] as the worker of column c reads it
WorkerReads(df, c) == df[c]

InitWorkers ==
    /\ OrchInit
    /\ tr = LeafOff
    /\ aug = LeafOff
    /\ val = LeafOff
    /\ norm = LeafOff
    /\ cleanup = LeafOff
    /\ dep = LeafOff
    /\ pipe = LeafOff
    /\ \E table \in PoolTables, step \in DOMAIN ParallelSteps :
          pool = [pc |-> "fanout", step |-> step, before |-> table,
                  df |-> table,
                  w |-> [c \in DOMAIN table |->
                            [pc |-> "submitted", read |-> NoTable,
                             local |-> NoTable]],
                  feature_stats |-> <<>>, joined |-> <<>>]

\* the worker evaluates the right-hand side of its assignment (lines 86-93,
\* 110-113, 138-140, 158-160) from the column it reads; mode()[0] of an
\* object column without a value raises
WorkerEvaluates ==
    /\ \E c \in DOMAIN pool.w :
       /\ pool.pc = "fanout"
       /\ pool.w[c].pc = "submitted"
       /\ LET col == WorkerReads(pool.df, c)
          IN IF pool.step = "handle_missing" /\ ProcessColumnRaises(col)
             THEN pool' = [pool EXCEPT !.w[c].pc = "raised"]
             ELSE pool' = [pool EXCEPT
                             !.w[c] = [pc |-> "evaluated", read |-> col,
                                       local |-> StepWorker(pool.step, col)]]
    /\ UNCHANGED <<orchVars, tr, aug, val, norm, cleanup, dep, pipe>>

\* df[col] = ... (lines 113, 140, 160), and scale_column's entry of
\* self._feature_stats (lines 164-169); process_column assigns nothing
WorkerAssigns ==
    /\ \E c \in DOMAIN pool.w :
       /\ pool.pc = "fanout"
       /\ pool.w[c].pc = "evaluated"
       /\ pool' = [pool EXCEPT
                     !.w[c].pc = "assigned",
                     !.df[c] = IF ParallelSteps[pool.step]
                               THEN pool.w[c].local ELSE @,
                     !.feature_stats =
                         IF pool.step = "scale_numerical"
                            /\ pool.w[c].read.dtype = "num"
                         THEN (c :> FeatureStats(pool.w[c].read)) @@ @
                         ELSE @]
    /\ UNCHANGED <<orchVars, tr, aug, val, norm, cleanup, dep, pipe>>

\* return df[col] (lines 114, 142, 170); process_column returns the filled
\* column itself (lines 89-94)
WorkerReturns ==
    /\ \E c \in DOMAIN pool.w :
       /\ pool.pc = "fanout"
       /\ pool.w[c].pc = "assigned"
       /\ pool' = [pool EXCEPT
                     !.w[c].pc = "done",
                     !.w[c].local = IF ParallelSteps[pool.step]
                                    THEN WorkerReads(pool.df, c) ELSE @]
    /\ UNCHANGED <<orchVars, tr, aug, val, norm, cleanup, dep, pipe>>

\* list(executor.map(...)) has every result, in the order of df.columns,
\* and pd.concat puts them side by side (lines 97-98, 117-118, 145-146,
\* 173-174); the exception of a worker is raised from list() instead, and
\* leaving the `with` block (line 36) waits for the workers still running
Join ==
    /\ pool.pc = "fanout"
    /\ \A c \in DOMAIN pool.w : pool.w[c].pc \in {"done", "raised"}
    /\ IF \E c \in DOMAIN pool.w : pool.w[c].pc = "raised"
       THEN pool' = [pool EXCEPT !.pc = "raised"]
       ELSE pool' = [pool EXCEPT
                       !.pc = "joined",
                       !.joined = [c \in DOMAIN pool.w |-> pool.w[c].local]]
    /\ UNCHANGED <<orchVars, tr, aug, val, norm, cleanup, dep, pipe>>

NextWorkers ==
    \/ WorkerEvaluates
    \/ WorkerAssigns
    \/ WorkerReturns
    \/ Join

SpecWorkers == InitWorkers /\ [][NextWorkers]_vars

(***************************************************************************)
(* The deployments of one owner (api/v1/deployment.py)                     *)
(*                                                                         *)
(* A row of the deployments table is [status, task]: task tells whether a  *)
(* deploy_model_task for the row is queued as a background task, running   *)
(* (between its two commits), or absent.  Rows get their ids in order.     *)
(***************************************************************************)
\* settings.MAX_DEPLOYMENTS
MAX_DEPLOYMENTS == 5

\* the query of lines 95-98: the owner's rows that are active or deploying
ActiveDeployments(rows) ==
    Cardinality({i \in DOMAIN rows : rows[i].status \in {"active", "deploying"}})

InitDeployments ==
    /\ OrchInit
    /\ tr = LeafOff
    /\ aug = LeafOff
    /\ val = LeafOff
    /\ norm = LeafOff
    /\ cleanup = LeafOff
    /\ pool = LeafOff
    /\ pipe = LeafOff
    /\ dep = [rows |-> <<>>, response |-> 0]

\* create_deployment, lines 94-131 (the model exists and is the owner's):
\* 400 at the quota, else a pending row and its background task
CreateDeployment ==
    /\ dep # LeafOff
    \* the table holds up to one row more than the quota
    /\ Len(dep.rows) <= MAX_DEPLOYMENTS
    /\ IF ActiveDeployments(dep.rows) >= MAX_DEPLOYMENTS
       THEN dep' = [dep EXCEPT !.response = 400]
       ELSE dep' = [rows |-> Append(dep.rows, [status |-> "pending",
                                               task |-> "queued"]),
                    response |-> 200]
    /\ UNCHANGED <<orchVars, tr, aug, val, norm, cleanup, pool, pipe>>

\* deploy_model_task, lines 26-36: the row becomes deploying
DeployModelTaskStarts ==
    /\ dep # LeafOff
    /\ \E id \in DOMAIN dep.rows :
          /\ dep.rows[id].task = "queued"
          /\ dep' = [dep EXCEPT !.rows[id] = [status |-> "deploying",
                                              task |-> "running"]]
    /\ UNCHANGED <<orchVars, tr, aug, val, norm, cleanup, pool, pipe>>

\* deploy_model_task, lines 38-67: load_model and start return and the row
\* becomes active, or one of them raises and the row becomes failed
DeployModelTaskEnds ==
    /\ dep # LeafOff
    /\ \E id \in DOMAIN dep.rows, status \in {"active", "failed"} :
          /\ dep.rows[id].task = "running"
          /\ dep' = [dep EXCEPT !.rows[id] = [status |-> status,
                                              task |-> "none"]]
    /\ UNCHANGED <<orchVars, tr, aug, val, norm, cleanup, pool, pipe>>

\* stop_deployment, lines 262-274
StopDeployment ==
    /\ dep # LeafOff
    /\ \E id \in DOMAIN dep.rows :
          /\ IF dep.rows[id].status # "active"
             THEN dep' = [dep EXCEPT !.response = 400]
             ELSE dep' = [dep EXCEPT !.rows[id].status = "stopped",
                                     !.response = 200]
    /\ UNCHANGED <<orchVars, tr, aug, val, norm, cleanup, pool, pipe>>

\* restart_deployment, lines 302-330 (the model exists), for a row without
\* an outstanding task: 400 if active, else a new task and status pending
RestartDeployment ==
    /\ dep # LeafOff
    /\ \E id \in DOMAIN dep.rows :
          /\ dep.rows[id].task = "none"
          /\ IF dep.rows[id].status = "active"
             THEN dep' = [dep EXCEPT !.response = 400]
             ELSE dep' = [dep EXCEPT !.rows[id] = [status |-> "pending",
                                                   task |-> "queued"],
                                     !.response = 200]
    /\ UNCHANGED <<orchVars, tr, aug, val, norm, cleanup, pool, pipe>>

NextDeployments ==
    \/ CreateDeployment
    \/ DeployModelTaskStarts
    \/ DeployModelTaskEnds
    \/ StopDeployment
    \/ RestartDeployment

SpecDeployments == InitDeployments /\ [][NextDeployments]_vars

(***************************************************************************)
(* One request to the process_data endpoint (api/v1/pipeline.py) and its   *)
(* Pipeline record (models/pipeline.py)                                    *)
(*                                                                         *)
(* `now` is the UTC clock in seconds; an unset column is <<>> and a set    *)
(* one <<value>>.  Every change of the record is committed by the          *)
(* statement that follows it, so the record is the persisted row.  `rows`  *)
(* are the records of the requests answered before.                        *)
(***************************************************************************)
\* number of requests sent to the endpoint
MaxRequests == 2

\* variant of update_status that stamps only a completed record
UpdateStatusStampsCompletedOnly(rec, status, error_message, now) ==
    [rec EXCEPT
        !.status = status,
        !.error_message = IF error_message # <<>> THEN error_message ELSE @,
        !.start_time = IF status = "running" THEN <<now>> ELSE @,
        !.end_time = IF status = "completed" THEN <<now>> ELSE @,
        !.execution_time =
            IF status = "completed" /\ rec.start_time # <<>>
            THEN <<now - rec.start_time[1]>> ELSE @]

\* Pipeline.update_status, models/pipeline.py:66-83
UpdateStatus(rec, status, error_message, now) ==
    [rec EXCEPT
        !.status = status,
        !.error_message = IF error_message # <<>> THEN error_message ELSE @,
        !.start_time = IF status = "running" THEN <<now>> ELSE @,
        !.end_time = IF status \in {"completed", "failed"} THEN <<now>> ELSE @,
        !.execution_time =
            IF status \in {"completed", "failed"} /\ rec.start_time # <<>>
            THEN <<now - rec.start_time[1]>> ELSE @]

InitPipe ==
    /\ OrchInit
    /\ tr = LeafOff
    /\ aug = LeafOff
    /\ val = LeafOff
    /\ norm = LeafOff
    /\ cleanup = LeafOff
    /\ pool = LeafOff
    /\ dep = LeafOff
    /\ pipe = [pc |-> "responded", n |-> 0, now |-> 0, http |-> 0,
               returned |-> FALSE, rec |-> [status |-> "none"], rows |-> <<>>]

\* what the clock shows at the next statement that reads it
Later(now) == {now, now + 1}

\* lines 35-64: 404 or 400 without a usable dataset, else the record is
\* added with status pending
CreatePipeline ==
    /\ pipe.pc = "responded"
    /\ pipe.n < MaxRequests
    /\ \E dataset \in {"missing", "no file_path", "found"} :
          LET next == [pipe EXCEPT
                          !.n = @ + 1,
                          !.returned = FALSE,
                          !.rows = IF pipe.rec.status = "none" THEN @
                                   ELSE Append(@, pipe.rec)]
          IN IF dataset = "found"
             THEN pipe' = [next EXCEPT
                             !.pc = "created",
                             !.rec = [status |-> "pending", results |-> <<>>,
                                      error_message |-> <<>>,
                                      start_time |-> <<>>, end_time |-> <<>>,
                                      execution_time |-> <<>>]]
             ELSE pipe' = [next EXCEPT
                             !.rec = [status |-> "none"],
                             !.http = IF dataset = "missing" THEN 404
                                      ELSE 400]
    /\ UNCHANGED <<orchVars, tr, aug, val, norm, cleanup, pool, dep>>

\* the handler of lines 113-119: the record becomes failed, response 500
RequestFails(now, msg) ==
    [pipe EXCEPT !.pc = "responded", !.now = now, !.http = 500,
                 !.rec = UpdateStatus(@, "failed", <<msg>>, now)]

\* lines 66-72: the service is constructed and the record becomes running;
\* the constructor raises or returns
StartProcessing ==
    /\ pipe.pc = "created"
    /\ \E constructed \in BOOLEAN, now \in Later(pipe.now) :
          IF constructed
          THEN pipe' = [pipe EXCEPT
                          !.pc = "running", !.now = now,
                          !.rec = UpdateStatus(@, "running", <<>>, now)]
          ELSE pipe' = RequestFails(now, "constructor")
    /\ UNCHANGED <<orchVars, tr, aug, val, norm, cleanup, pool, dep>>

\* lines 74-81: process_dataset returns its results, returns None, or
\* raises (the input could not be loaded)
AwaitProcessDataset ==
    /\ pipe.pc = "running"
    /\ \E outcome \in {"results", "None", "raised"}, now \in Later(pipe.now) :
          IF outcome = "results"
          THEN pipe' = [pipe EXCEPT !.pc = "results", !.now = now,
                                    !.returned = TRUE]
          ELSE pipe' = RequestFails(now, outcome)
    /\ UNCHANGED <<orchVars, tr, aug, val, norm, cleanup, pool, dep>>

\* lines 83-111: the results are normalized, stored, and the record
\* becomes completed; convert_numpy_types returns or raises
CompleteRequest ==
    /\ pipe.pc = "results"
    /\ \E converted \in BOOLEAN, now \in Later(pipe.now) :
          IF converted
          THEN pipe' = [pipe EXCEPT
                          !.pc = "responded", !.now = now, !.http = 200,
                          !.rec = UpdateStatus(
                                      [@ EXCEPT !.results = <<"results">>],
                                      "completed", <<>>, now)]
          ELSE pipe' = RequestFails(now, "convert")
    /\ UNCHANGED <<orchVars, tr, aug, val, norm, cleanup, pool, dep>>

NextPipe ==
    \/ CreatePipeline
    \/ StartProcessing
    \/ AwaitProcessDataset
    \/ CompleteRequest

SpecPipe == InitPipe /\ [][NextPipe]_vars

(***************************************************************************)
(* Properties of one invocation of process_dataset                         *)
(***************************************************************************)
Started == run.pc # "idle"

\* the input table was obtained and the last stage is over
StagesDone ==
    /\ run.pc \in {"finalizing", "completed", "failed"}
    /\ run.data # NoTable

Executed == {run.trace[i].stage : i \in DOMAIN run.trace}

RaisedStages ==
    {run.trace[i].stage : i \in {k \in DOMAIN run.trace : run.trace[k].raised}}

RunRecord == stats[run.id]

HasError(rec, msg) == \E k \in DOMAIN rec.errors : rec.errors[k] = msg

\* the order of the stages as the specification states it
Pos(s) ==
    CASE s = "initial_validation" -> 1
      [] s = "preprocessing"      -> 2
      [] s = "analysis"           -> 3
      [] s = "augmentation"       -> 4
      [] s = "final_validation"   -> 5

\* the perform_* key a reader of the specification expects for stage s
Flag(cfg, s) ==
    CASE s = "initial_validation" -> cfg.perform_initial_validation
      [] s = "preprocessing"      -> cfg.perform_preprocessing
      [] s = "analysis"           -> cfg.perform_analysis
      [] s = "augmentation"       -> cfg.perform_augmentation
      [] s = "final_validation"   -> cfg.perform_final_validation

\* augmentation requested with a method augment_dataset does not know
ConfigMalformed(cfg) ==
    cfg.perform_augmentation /\ cfg.method \notin SupportedMethods

\* C1: continue-on-error.  When the input table was obtained and exactly one
\* stage raised, the errors list holds the error string of that stage (and
\* of no other stage), every later stage the config enables was executed,
\* and every later enabled stage that keeps a report has its report under
\* `stages`.
C1_ContinueOnError ==
    (Started /\ StagesDone /\ Cardinality(RaisedStages) = 1) =>
        LET s == CHOOSE x \in RaisedStages : TRUE
        IN /\ HasError(RunRecord, ErrorPrefix(s))
           /\ \A t \in Stages \ {s} : ~HasError(RunRecord, ErrorPrefix(t))
           /\ \A t \in Stages :
                (Pos(t) > Pos(s) /\ Gate(run.cfg, t)) =>
                    /\ t \in Executed
                    /\ t \in ReportingStages => t \in RunRecord.stages

\* C1 witness: preprocessing alone raised, analysis and augmentation ran
\* after it and stored their reports, the run returned
C1_Witness ==
    /\ Started
    /\ run.pc = "completed"
    /\ RaisedStages = {"preprocessing"}
    /\ RunRecord.stages = {"analysis", "augmentation"}
    /\ RunRecord.errors = <<"Preprocessing error">>

AllRaised ==
    /\ run.trace # <<>>
    /\ \A i \in DOMAIN run.trace : run.trace[i].raised

\* C2 (as claimed): terminal status.  A run that obtained its table ends
\* completed, also with errors; it ends failed only if loading failed or
\* every stage failed; a run in which every executed stage raised is not
\* reported completed.
C2_TerminalStatus ==
    (Started /\ run.pc \in {"completed", "failed"}) =>
        /\ (run.data # NoTable /\ ~AllRaised) => run.pc = "completed"
        /\ run.pc = "failed" => (run.data = NoTable \/ AllRaised)
        /\ AllRaised => run.pc # "completed"

\* C3: stage ordering.  The executed stages appear in the order initial
\* validation, preprocessing, analysis, augmentation, final validation, the
\* stage about to run comes after all executed ones, and each stage was
\* given the table assigned by the latest earlier stage that assigned one
\* (the loaded input if none did).
C3_StageOrdering ==
    Started =>
        /\ \A i, j \in DOMAIN run.trace :
              i < j => Pos(run.trace[i].stage) < Pos(run.trace[j].stage)
        /\ \A s \in Stages :
              run.pc = PcOf(s) =>
                  \A i \in DOMAIN run.trace : Pos(run.trace[i].stage) < Pos(s)
        /\ \A i \in DOMAIN run.trace :
              LET producers == {j \in 1..(i - 1) :
                                   run.trace[j].output # NoTable}
              IN IF producers = {}
                 THEN run.trace[i].input.by = "input"
                 ELSE run.trace[i].input =
                         run.trace[CHOOSE j \in producers :
                                      \A k \in producers : k <= j].output

\* C3 witness: all five stages ran; analysis was given the preprocessed
\* table and final validation the augmented one
C3_Witness ==
    /\ Started
    /\ Len(run.trace) = 5
    /\ run.trace[3].stage = "analysis"
    /\ run.trace[3].input.by = "preprocessing"
    /\ run.trace[5].input.by = "augmentation"

\* C4 (as claimed): each of the five stages is gated by its boolean; a stage
\* whose flag is false is not executed, stores no report and adds no error.
C4_AllFiveGated ==
    Started =>
        \A s \in Stages :
            ~Flag(run.cfg, s) =>
                /\ s \notin Executed
                /\ s \notin RunRecord.stages
                /\ ~HasError(RunRecord, ErrorPrefix(s))

\* C4 (amended): preprocessing, analysis and augmentation are gated by
\* perform_preprocessing, perform_analysis and perform_augmentation: with
\* the flag false the stage is not executed, stores no report and adds no
\* error.  Initial and final validation are executed in every run that
\* obtained its table, whatever the config says.
C4_ThreeStagesGated ==
    Started =>
        /\ \A s \in ReportingStages :
              ~Flag(run.cfg, s) =>
                  /\ s \notin Executed
                  /\ s \notin RunRecord.stages
                  /\ ~HasError(RunRecord, ErrorPrefix(s))
        /\ StagesDone =>
              {"initial_validation", "final_validation"} \subseteq Executed

\* C4 witness: every flag false; only the two validations ran
C4_Witness ==
    /\ Started
    /\ run.pc = "completed"
    /\ \A s \in Stages : ~Flag(run.cfg, s)
    /\ Executed = {"initial_validation", "final_validation"}
    /\ RunRecord.stages = {}

\* C5 (as claimed): process_dataset raises only for a configuration error or
\* when the input table could not be obtained.
C5_RaisesOnlyConfigOrLoad ==
    (Started /\ run.pc = "failed") =>
        (run.data = NoTable \/ ConfigMalformed(run.cfg))

\* C6: fatal input error.  A path with an unsupported suffix is never
\* loaded; when the table was not obtained the invocation has raised, no
\* stage was executed, and the record holds no report and no warning, only
\* the pipeline error.
C6_FatalInputError ==
    (Started /\ run.pc # "created") =>
        /\ run.input = "txt" => run.data = NoTable
        /\ run.data = NoTable =>
              /\ run.pc = "failed"
              /\ run.trace = <<>>
              /\ RunRecord.stages = {}
              /\ RunRecord.warnings = <<>>
              /\ RunRecord.errors = <<PipelineErrorPrefix>>
              /\ finished # <<>>
              /\ finished[Len(finished)].n = run.n
              /\ finished[Len(finished)].outcome = "raised"

\* C6 witness: a .txt path was passed and the invocation raised
C6_Witness ==
    /\ Started
    /\ run.input = "txt"
    /\ run.pc = "failed"
    /\ RunRecord.errors = <<PipelineErrorPrefix>>

\* C7 (as claimed): with a malformed config the error reaches the caller
\* before any stage has executed.
C7_ConfigErrorAbortsFirst ==
    (Started /\ run.pc # "created" /\ ConfigMalformed(run.cfg)) =>
        /\ run.pc = "failed"
        /\ run.trace = <<>>

\* C7 (amended): an unknown augmentation method is detected only inside the
\* augmentation stage: initial validation and the enabled preprocessing and
\* analysis stages have executed by then, the augmentation stage raises, is
\* recorded as an augmentation error and stores no report, final validation
\* still runs, and the error is not what makes process_dataset raise.
C7_ConfigErrorIsStageError ==
    (Started /\ ConfigMalformed(run.cfg)) =>
        /\ \A i \in DOMAIN run.trace :
              run.trace[i].stage = "augmentation" =>
                  /\ run.trace[i].raised
                  /\ run.trace[i].output = NoTable
                  /\ \A t \in {"initial_validation", "preprocessing",
                               "analysis"} :
                        Gate(run.cfg, t) =>
                            \E j \in 1..(i - 1) : run.trace[j].stage = t
        /\ "augmentation" \notin RunRecord.stages
        /\ StagesDone =>
              /\ {"augmentation", "final_validation"} \subseteq Executed
              /\ HasError(RunRecord, ErrorPrefix("augmentation"))
        /\ run.pc = "failed" =>
              \/ run.data = NoTable
              \/ run.save
              \/ RunRecord.end_time # -1

\* C7 witness: a run with an unknown method returned normally, with the
\* analysis report stored and the augmentation error recorded
C7_Witness ==
    /\ Started
    /\ ConfigMalformed(run.cfg)
    /\ run.pc = "completed"
    /\ "analysis" \in RunRecord.stages
    /\ HasError(RunRecord, ErrorPrefix("augmentation"))

(***************************************************************************)
(* Properties of several invocations                                       *)
(***************************************************************************)
\* C8 (as claimed): run isolation.  Distinct invocations have distinct
\* run ids, and the record and the persisted statistics of a finished
\* invocation are those it left behind.
C8_RunIsolation ==
    /\ \A i, j \in DOMAIN finished :
          i # j => finished[i].id # finished[j].id
    /\ \A i \in DOMAIN finished :
          /\ (Started /\ run.n # finished[i].n) => run.id # finished[i].id
          /\ stats[finished[i].id] = finished[i].record
          /\ finished[i].outcome = "returned" =>
                disk[finished[i].id] = finished[i].n

(***************************************************************************)
(* Properties of process_pipeline                                          *)
(***************************************************************************)
\* C9: row-count invariant of the transform.  After every step of
\* process_pipeline, and in the table it returns, every column has as many
\* rows as the table that was passed in.
C9_RowCount ==
    tr.pc # "off" =>
        \A i \in DOMAIN tr.df : Len(tr.df[i].vals) = Rows(tr.input)

\* C9 witness: a table with a missing age and a missing city went through
\* all five steps and was returned, with the interaction column added
C9_Witness ==
    /\ tr.pc = "returned"
    /\ tr.cfg.handle_missing /\ tr.cfg.handle_outliers
    /\ tr.cfg.feature_engineering /\ tr.cfg.encode_categorical
    /\ tr.cfg.scale_numerical
    /\ Rows(tr.input) = 2
    /\ AnyNull(tr.input[1].vals) /\ AnyNull(tr.input[2].vals)
    /\ Len(tr.df) = 3

(***************************************************************************)
(* Properties of augment_dataset                                           *)
(***************************************************************************)
\* C10 (as claimed): augmentation row count.  For the methods mixup,
\* random_interpolation, gaussian_noise and time_warp the augmented table
\* has rows(T) + floor(rows(T) * factor) rows.
C10_AugmentedRowCount ==
    (aug.pc = "returned"
        /\ aug.method \in {"mixup", "random_interpolation",
                           "gaussian_noise", "time_warp"}) =>
        Len(aug.augmented) =
            Len(aug.data.x) + (Len(aug.data.x) * aug.factor.n) \div aug.factor.d

\* C11: augmentation is append-only.  Whenever a method has built its
\* augmented table, the first rows(T) rows of that table are the rows of
\* the table T that was passed in, in their order; and no step of
\* augment_dataset changes the table that was passed in.
C11_AppendOnly ==
    /\ [](aug.pc \in {"calculate_stats", "returned"} =>
            /\ Len(aug.augmented) >= Len(aug.data.x)
            /\ SubSeq(aug.augmented, 1, Len(aug.data.x)) = aug.data.x)
    /\ [][aug.pc # "off" => aug'.data = aug.data]_vars

\* C11 witness: a returned call that appended at least one new row whose
\* value is not a value of the input column
C11_Witness ==
    /\ aug.pc = "returned"
    /\ Len(aug.augmented) > Len(aug.data.x)
    /\ \E i \in DOMAIN aug.augmented :
          \A j \in DOMAIN aug.data.x : aug.augmented[i] # aug.data.x[j]

(***************************************************************************)
(* Properties of validate_dataset                                          *)
(***************************************************************************)
\* a rule set is well formed when every declared type is one of the types
\* the validator knows and every range names a minimum and a maximum
KnownTypes == {"int", "float", "string", "boolean", "datetime"}
ValWellFormed(config) ==
    /\ \A i \in DOMAIN config.column_types :
          Lower(config.column_types[i][2]) \in KnownTypes
    /\ \A i \in DOMAIN config.value_ranges :
          config.value_ranges[i][2] = <<"min", "max">>

ValEnded == val.pc \in {"returned", "raised"}

\* C12 (as claimed): validation never raises for validation findings.  A
\* call of validate_dataset that raises was given malformed rules; with
\* well-formed rules it returns a report.
C12_RaisesOnlyOnMalformedRules ==
    val.pc = "raised" => ~ValWellFormed(val.config)

\* the messages of all six checks, in the order of the checks
AllViolations(df, config) ==
    CheckRequiredColumns(df, config).errors
        \o CheckColumnTypes(df, config.column_types)
        \o CheckValueRanges(df, config.value_ranges).errors
        \o CheckUniqueConstraints(df, config.unique_columns)
        \o CheckMissingValues(df, config).errors
        \o CheckDataQuality(df).errors

\* C13 (as claimed): the rules are independent and additive.  A call with
\* well-formed rules runs every check, whatever the earlier checks found:
\* it ends with a report whose violations are the concatenation of the
\* messages of all the checks, and is_valid says that there are none.
C13_RulesIndependentAdditive ==
    (ValEnded /\ ValWellFormed(val.config)) =>
        /\ val.pc = "returned"
        /\ ValOutcome(val).violations = AllViolations(val.df, val.config)
        /\ ValOutcome(val).is_valid <=> ValOutcome(val).violations = <<>>

\* C14: idempotence of validation.  The second call on the same table with
\* the same rules ends as the first did (the same report, with the same
\* messages in the same order), and no step of a call changes the table or
\* the rules the validator holds.
C14_ValidationIdempotent ==
    /\ []((ValEnded /\ val.call = 2) => ValOutcome(val) = val.first)
    /\ [][val.pc # "off" =>
            (val'.df = val.df /\ val'.config = val.config)]_vars

\* C14 witness: the second call returned a report with a violation
C14_Witness ==
    /\ val.pc = "returned"
    /\ val.call = 2
    /\ val.first.kind = "report"
    /\ ~ValOutcome(val).is_valid

(***************************************************************************)
(* Frame properties of process_pipeline                                    *)
(***************************************************************************)
\* C15 (as claimed): the transform never modifies its caller's table.  At
\* every step of process_pipeline, and after it, the table object that was
\* passed in has the columns and values it had at the call.
C15_CallerTableUntouched ==
    tr.pc # "off" => tr.caller = tr.input

(***************************************************************************)
(* Properties of the records kept by the orchestrator                      *)
(***************************************************************************)
\* C16 (as claimed): a returned Pipeline Run record is frozen.  For every
\* invocation that returned, the record kept under its id, with the stage
\* results it refers to, is at all later times the record that was
\* returned.
C16_ReturnedRecordFrozen ==
    \A i \in DOMAIN finished :
        finished[i].outcome = "returned" =>
            /\ stats[finished[i].id] = finished[i].record
            /\ StageResult(stats[finished[i].id], "preprocessing")
                   = finished[i].preprocessing

\* C17 (as claimed): mixup determinism under seed.  With the same
\* random_state in the augmentation config, a second call of
\* augment_dataset(T, "mixup", 0.5) on the same table synthesizes the rows
\* the first call synthesized, whatever was drawn in between.
C17_MixupDeterministic ==
    (/\ aug.pc = "returned"
     /\ aug.call = 2
     /\ aug.method = "mixup"
     /\ aug.factor = Q(1, 2)
     /\ aug.first.kind = "returned") =>
        SubSeq(aug.augmented, Len(aug.data.x) + 1, Len(aug.augmented))
            = SubSeq(aug.first.augmented, Len(aug.data.x) + 1,
                     Len(aug.first.augmented))

(***************************************************************************)
(* Properties of clean_old_pipelines                                       *)
(***************************************************************************)
\* the age of a record at the time of the cleanup, in seconds
AgeAtCleanup(rec) == cleanup.now - rec.start_time

\* C18 (as claimed): retention cleanup.  After clean_old_pipelines
\* completed, every record that was older than max_age is gone together
\* with its run directory, and every record that was at most max_age old is
\* still there.
C18_RetentionCleanup ==
    cleanup.pc = "done" =>
        \A i \in Ids :
            cleanup.before[i] # NoRecord =>
                IF AgeAtCleanup(cleanup.before[i])
                       > cleanup.max_age_days * SecondsPerDay
                THEN stats[i] = NoRecord /\ disk[i] = 0
                ELSE stats[i] = cleanup.before[i]

(***************************************************************************)
(* Cancellation of process_dataset                                         *)
(***************************************************************************)
\* the error a cancelled invocation is to leave in its record
CancellationError == "Cancelled"

\* C19 (as claimed): cancellation.  An invocation whose cancellation was
\* requested while a stage was executing ends failed, with a
\* cancellation error in its record.
C19_CancelledRunFails ==
    (run.pc \in {"completed", "failed"} /\ run.cancelled) =>
        /\ run.pc = "failed"
        /\ HasError(RunRecord, CancellationError)

(***************************************************************************)
(* Properties of the normalizer                                            *)
(***************************************************************************)
\* every scalar of x is a portable one and every container a list or dict
RECURSIVE Portable(_)
Portable(x) ==
    IF IsScalar(x) THEN x.k \in {"int", "float", "bool", "str", "None"}
    ELSE /\ x.k \in {"list", "dict"}
         /\ \A i \in DOMAIN x.items : Portable(x.items[i])

\* y has the keys, the order and the scalar values of x
RECURSIVE SameShape(_, _)
SameShape(x, y) ==
    IF IsScalar(x) THEN IsScalar(y) /\ y.v = x.v
    ELSE /\ ~IsScalar(y)
         /\ y.keys = x.keys
         /\ DOMAIN y.items = DOMAIN x.items
         /\ \A i \in DOMAIN x.items : SameShape(x.items[i], y.items[i])

OutliersHandled == tr.pc = "feature_engineering" /\ tr.cfg.handle_outliers

Readings == <<QInt(10), QInt(12), QInt(11), QInt(1000), QInt(9)>>

IsReadings(df) == Len(df) = 1 /\ df[1].name = "reading"

\* C21 as stated: with threshold 3 the readings [10, 12, 11, 1000, 9] leave
\* outlier handling as [10, 12, 11, 11, 9].
C21_ScenarioClipped ==
    (/\ OutliersHandled
     /\ IsReadings(tr.input)
     /\ tr.cfg.outlier_threshold = QInt(3))
    => tr.df[1].vals = [Readings EXCEPT ![4] = QInt(11)]

\* C21 (amended): with threshold 3 the readings leave outlier handling
\* unchanged, 1000 included: its z-score is below 3 (no value of a column of
\* five has a z-score above 4 / sqrt(5)).  With the threshold 1/2 exactly
\* the value 1000 is replaced, by the median 11.
C21_ScenarioUnchangedAtThree ==
    (OutliersHandled /\ IsReadings(tr.input)) =>
        tr.df[1].vals = IF tr.cfg.outlier_threshold = QInt(3)
                        THEN Readings
                        ELSE [Readings EXCEPT ![4] = QInt(11)]

\* C21 witness: the readings went through outlier handling with threshold 3
C21_Witness ==
    /\ OutliersHandled
    /\ IsReadings(tr.input)
    /\ tr.cfg.outlier_threshold = QInt(3)
    /\ tr.df[1].vals[4] = QInt(1000)

\* the row counts of the classes of a target column differ by at most 1
ClassesBalanced(target) ==
    LET count(c) == Cardinality({i \in DOMAIN target : target[i] = c})
    IN \A i, j \in DOMAIN target :
           count(target[i]) - count(target[j]) \in {-1, 0, 1}

\* C22: SMOTE class balance.  Once a call with method smote is past its
\* dispatch, the method has built a table (by the balancing algorithm or by
\* the random-oversampling fallback) whose classes in the target column x
\* have row counts equal up to 1.
C22_SmoteBalancesOrFallsBack ==
    (aug.method = "smote" /\ aug.pc # "dispatch") =>
        /\ aug.pc # "raised"
        /\ Len(aug.augmented) >= Len(aug.data.x)
        /\ ClassesBalanced(aug.augmented)

\* the call has just left _handle_missing_values, which was enabled
MissingHandled == tr.pc = "handle_outliers" /\ tr.cfg.handle_missing

\* what the claim puts in the place of a missing value of a column
Statistic(col, strategy) ==
    IF col.dtype = "obj" THEN {Mode(col.vals)}
    ELSE CASE strategy = "mean"   -> {Mean(col.vals)}
           [] strategy = "median" -> {Median(col.vals)}
           [] strategy = "zero"   -> {QInt(0)}
           [] OTHER -> {col.vals[k] : k \in DOMAIN col.vals} \ {NaN}

\* C23: missing-value handling.  When the enabled step returns for a table
\* whose columns all have a value, the table has the same columns, every
\* value that was present is unchanged, and every missing value has been
\* replaced by the statistic of its column: the mean, median or zero (a
\* value of the column for mode) in a numeric column, the mode in a
\* non-numeric one.
C23_MissingValuesFilled ==
    (MissingHandled
        /\ \A i \in DOMAIN tr.input : NonNull(tr.input[i].vals) # <<>>) =>
        /\ Len(tr.df) = Len(tr.input)
        /\ \A i \in DOMAIN tr.input :
              /\ tr.df[i].name = tr.input[i].name
              /\ Len(tr.df[i].vals) = Len(tr.input[i].vals)
              /\ \A k \in DOMAIN tr.input[i].vals :
                    IF IsNaN(tr.input[i].vals[k])
                    THEN tr.df[i].vals[k] \in
                             Statistic(tr.input[i],
                                       tr.cfg.missing_values_strategy)
                    ELSE tr.df[i].vals[k] = tr.input[i].vals[k]

\* C24: a column without any value is a stage-level error.  When enabled
\* missing-value handling has run on a table with a column, numeric or
\* not, that has no non-missing value, the call has raised.
C24_EmptyColumnIsError ==
    (/\ tr.pc \notin {"off", "handle_missing"}
     /\ tr.cfg.handle_missing
     /\ \E i \in DOMAIN tr.input : NonNull(tr.input[i].vals) = <<>>)
    => tr.pc = "raised"

\* the table as it entered _handle_outliers
BeforeOutliers ==
    IF tr.cfg.handle_missing
    THEN [i \in DOMAIN tr.input |->
             ProcessColumn(tr.input[i], tr.cfg.missing_values_strategy)]
    ELSE tr.input

\* z > threshold for the value x of the values vals, z = |x - mean| / std
\* with the sample standard deviation, both sides squared
ZAbove(vals, x, threshold) ==
    LET dev == QSub(x, Mean(vals))
        var == QDiv(SumSq(vals), QInt(Len(NonNull(vals)) - 1))
    IN QLess(QMul(threshold, threshold), QDiv(QMul(dev, dev), var))

\* C25: the z-score outlier rule.  When the enabled step returns, the table
\* has the columns it had; in every numeric column exactly the values with
\* |x - mean| / std > threshold hold the column median, with mean, std and
\* median those of the column as it entered the step; every other value
\* and every non-numeric column is as it entered the step.
C25_ZScoreRule ==
    OutliersHandled =>
        /\ Len(tr.df) = Len(BeforeOutliers)
        /\ \A i \in DOMAIN BeforeOutliers :
              LET col == BeforeOutliers[i]
              IN /\ tr.df[i].name = col.name
                 /\ tr.df[i].dtype = col.dtype
                 /\ Len(tr.df[i].vals) = Len(col.vals)
                 /\ \A k \in DOMAIN col.vals :
                       tr.df[i].vals[k] =
                           IF /\ col.dtype = "num"
                              /\ ZAbove(col.vals, col.vals[k],
                                        tr.cfg.outlier_threshold)
                           THEN Median(col.vals)
                           ELSE col.vals[k]

\* C25 witness: the step replaced one value of the readings by the median
\* and kept the others
C25_Witness ==
    /\ OutliersHandled
    /\ IsReadings(tr.input)
    /\ tr.cfg.outlier_threshold = Q(1, 2)
    /\ tr.df[1].vals = [Readings EXCEPT ![4] = QInt(11)]

\* the steps of process_pipeline with the option that switches each
StepOptions ==
    {<<"handle_missing", "handle_missing">>,
     <<"handle_outliers", "handle_outliers">>,
     <<"feature_engineering", "feature_engineering">>,
     <<"encode_categorical", "encode_categorical">>,
     <<"scale_numerical", "scaling">>}

\* C26: disabled steps are no-ops.  A step whose option (handle_missing,
\* handle_outliers, feature_engineering, encode_categorical, scaling) is
\* false leaves the table and the recorded statistics as they were,
\* whatever the other options are.
C26_DisabledStepsAreNoOps ==
    [][\A so \in StepOptions :
          (tr.pc = so[1] /\ ~tr.cfg[so[2]]) =>
              /\ tr'.df = tr.df
              /\ tr'.feature_stats = tr.feature_stats]_vars

\* C27: column-level failure isolation.  When the per-column operation of
\* enabled missing-value handling raises for a column (the mode of a text
\* column without a value), the call does not raise: the step returns the
\* table with that column as it was passed and the other columns filled.
C27_ColumnFailureIsolated ==
    (/\ tr.pc \notin {"off", "handle_missing"}
     /\ tr.cfg.handle_missing
     /\ \E i \in DOMAIN tr.input : ProcessColumnRaises(tr.input[i]))
    => /\ tr.pc # "raised"
       /\ tr.pc = "handle_outliers" =>
             \A i \in DOMAIN tr.input :
                 tr.df[i] =
                     IF ProcessColumnRaises(tr.input[i])
                     THEN tr.input[i]
                     ELSE ProcessColumn(tr.input[i],
                                        tr.cfg.missing_values_strategy)

(***************************************************************************)
(* Properties of the worker pool                                           *)
(***************************************************************************)
\* the step carried out column by column, one column after the other
Sequential(step, df) == [c \in DOMAIN df |-> StepWorker(step, df[c])]

C29_DeploymentQuota ==
    dep # LeafOff => ActiveDeployments(dep.rows) <= MAX_DEPLOYMENTS

(***************************************************************************)
(* Properties of the Pipeline record of a request                          *)
(***************************************************************************)
\* the moves of the status of a record
StatusMoves ==
    {<<"none", "pending">>, <<"pending", "running">>,
     <<"pending", "failed">>, <<"running", "completed">>,
     <<"running", "failed">>}

====
